---- MODULE Spec2Model ----
(***************************************************************************)
(* Model of the Persian transcriber command line (persian_transcriber/     *)
(* cli.py) and of the sequential batch loop of examples/                   *)
(* batch_processing.py.                                                    *)
(*                                                                         *)
(* Two specifications share the module:                                    *)
(*   Spec     one run of cli.main, from parse_args to the exit status;     *)
(*   SpecEx1  one run of example_1_transcribe_directory.                   *)
(* Each specification leaves the other's variables at their initial value. *)
(***************************************************************************)
EXTENDS Integers, Sequences, FiniteSets, TLC

VARIABLES
    \* ---- cli.main ----
    argv,         \* the command line as typed
    fs_kind,      \* what the input path is on disk: "missing", "file", "dir"
    pc,           \* position of main
    args,         \* the namespace parse_args returned
    logging_level,\* the level setup_logging was asked for
    input_path,   \* validate_input's return value
    config,       \* the TranscriberConfig built by main
    transcriber,  \* the PersianAudioTranscriber created by main
    calls,        \* how often each collaborator has been called
    call_args,    \* the keyword arguments of the processing call
    result,       \* transcribe_file's return value
    results,      \* scan_and_transcribe's return value
    successful,   \* main's local of the same name
    failed,       \* main's local of the same name
    exc,          \* the exception in flight
    stdout,       \* what main printed
    logged,       \* what main sent to its logger
    written,      \* output files written during the run
    status,       \* exit status, meaningful once pc is "returned" or "exited"
    \* ---- example_1_transcribe_directory ----
    recordings,   \* the files of ./recordings
    engine,       \* what transcribe_file does for each file
    audio_files,  \* the discovered files, in discovery order
    ex1_pc,       \* position of the example
    ex1_i,        \* enumerate's counter
    ex1_results,  \* the result list
    ex1_attempts, \* the files handed to transcribe_file, in call order
    ex1_stdout,   \* the status lines printed
    ex1_saved,    \* what json.dump wrote to batch_results.json
    audio_dir_exists \* whether ./recordings exists

cliVars == <<argv, fs_kind, pc, args, logging_level, input_path, config,
             transcriber, calls, call_args, result, results, successful,
             failed, exc, stdout, logged, written, status>>

ex1Vars == <<recordings, engine, audio_files, ex1_pc, ex1_i, ex1_results,
             ex1_attempts, ex1_stdout, ex1_saved, audio_dir_exists>>

VARIABLES
    \* ---- example_4_incremental_output, run twice in a row ----
    ex4_pc,       \* position of the example
    ex4_run,      \* which of the two runs is going on
    ex4_recordings, \* the files of ./recordings
    ex4_files,    \* audio_files of the current run
    ex4_i,        \* enumerate's counter
    transcriptions, \* the files of ./transcriptions, each with its content
    ex4_before,   \* ./transcriptions as the second run found it
    ex4_invoked,  \* the transcribe_file calls made: run and file
    ex4_report,   \* the status lines printed: run, file and status
    ex4_audio_dir \* whether ./recordings exists

ex4Vars == <<ex4_pc, ex4_run, ex4_recordings, ex4_files, ex4_i, transcriptions,
             ex4_before, ex4_invoked, ex4_report, ex4_audio_dir>>

\* example_3_progress_callback
VARIABLES
    ex3_pc,       \* position of the example
    ex3_audio_dir, \* whether ./recordings exists
    ex3_recordings, \* the files of ./recordings
    ex3_files,    \* audio_files
    ex3_i,        \* how many files the for loop has taken
    ex3_results,  \* results
    pbar,         \* the tqdm bar: its total and its counter n
    pbar_updates  \* the pbar.update calls made: n after the call, total and
                  \* how many results there were

ex3Vars == <<ex3_pc, ex3_audio_dir, ex3_recordings, ex3_files, ex3_i,
             ex3_results, pbar, pbar_updates>>

\* example_2_parallel_processing
VARIABLES
    ex2_pc,       \* position of the main thread
    ex2_audio_dir, \* whether ./recordings exists
    ex2_recordings, \* the files of ./recordings
    ex2_files,    \* audio_files
    tasks,        \* the submitted transcribe_one calls, in submission order:
                  \* file, state, transcriber and what the future holds
    transcribers, \* the PersianAudioTranscriber constructor calls made: the
                  \* constructing task, whether the call returned, and the
                  \* transcribe_file calls made on the instance
    ex2_results,  \* results
    ex2_collected, \* the futures as_completed has yielded
    ex2_stdout    \* what the main thread printed

ex2Vars == <<ex2_pc, ex2_audio_dir, ex2_recordings, ex2_files, tasks,
             transcribers, ex2_results, ex2_collected, ex2_stdout>>

\* utils/logging.py
VARIABLES
    yaml_logging, \* the logging section of config.yaml: each key given or not
    config_cache, \* _config_cache
    initialized,  \* _initialized
    loggers,      \* the names in _loggers
    pkg_level,    \* the level of the logger "persian_transcriber"
    pkg_handlers, \* its handlers, in the order they were added
    pkg_propagate, \* its propagate attribute
    last_call,    \* the arguments of the latest setup_logging call
    last_record,  \* the latest record logged through a package logger and
                  \* how often it was written to the console and to the file
    threads       \* the threads that call into the module: where each is in
                  \* setup_logging and the arguments of its call

logVars == <<yaml_logging, config_cache, initialized, loggers, pkg_level,
             pkg_handlers, pkg_propagate, last_call, last_record, threads>>

vars == <<cliVars, ex1Vars, ex4Vars, ex3Vars, ex2Vars, logVars>>

\* what an action of one part leaves unchanged in the others
nonCliVars == <<ex1Vars, ex4Vars, ex3Vars, ex2Vars, logVars>>
nonEx1Vars == <<cliVars, ex4Vars, ex3Vars, ex2Vars, logVars>>
nonEx4Vars == <<cliVars, ex1Vars, ex3Vars, ex2Vars, logVars>>
nonEx3Vars == <<cliVars, ex1Vars, ex4Vars, ex2Vars, logVars>>
nonEx2Vars == <<cliVars, ex1Vars, ex4Vars, ex3Vars, logVars>>
nonLogVars == <<cliVars, ex1Vars, ex4Vars, ex3Vars, ex2Vars, threads>>
nonThreadVars == <<cliVars, ex1Vars, ex4Vars, ex3Vars, ex2Vars>>

(***************************************************************************)
(* Bounds                                                                  *)
(***************************************************************************)
MaxResults == 3     \* longest result list scan_and_transcribe returns
MaxFiles == 3       \* most files in ./recordings
MaxMp3 == 3         \* most MP3 files in ./recordings
MaxTasks == 2       \* most MP3 files in ./recordings of the parallel example
MaxThreads == 2     \* most threads that call into utils/logging.py

(***************************************************************************)
(* Exit codes                                                              *)
(***************************************************************************)
EXIT_OK == 0
EXIT_ERROR == 1
EXIT_INTERRUPT == 130
EXIT_USAGE == 2     \* argparse's parser.error

(***************************************************************************)
(* Paths.  A path is its stem and its suffix, as pathlib splits it.        *)
(***************************************************************************)
MkPath(stem, suffix) == [stem |-> stem, suffix |-> suffix]

NoPath == MkPath("", "")

InputPaths ==
    { MkPath("a", ".mp3"), MkPath("B", ".WAV"), MkPath("notes", ".pdf"),
      MkPath("recordings", ""), MkPath("clips", ".pdf") }

\* str.lower on the suffixes of the model
Lower(s) ==
    CASE s = ".MP3" -> ".mp3"
      [] s = ".WAV" -> ".wav"
      [] s = ".PDF" -> ".pdf"
      [] OTHER -> s

SUPPORTED_EXTENSIONS == {".mp3", ".wav", ".flac", ".m4a", ".mp4"}

(***************************************************************************)
(* Exceptions.  A raised exception is its class and its message; the       *)
(* classes are related as in Python's hierarchy.                           *)
(***************************************************************************)
NoExc == [kind |-> "none", msg |-> ""]

MkExc(kind, msg) == [kind |-> kind, msg |-> msg]

\* direct base class
Base(kind) ==
    CASE kind = "FileNotFoundError" -> "OSError"
      [] kind = "PermissionError" -> "OSError"
      [] kind = "OSError" -> "Exception"
      [] kind = "UnicodeDecodeError" -> "ValueError"
      [] kind = "ValueError" -> "Exception"
      [] kind = "RuntimeError" -> "Exception"
      [] kind = "KeyError" -> "Exception"
      [] kind = "Exception" -> "BaseException"
      [] kind = "KeyboardInterrupt" -> "BaseException"
      [] OTHER -> "BaseException"

RECURSIVE IsInstance(_, _)
IsInstance(kind, cls) ==
    IF kind = cls THEN TRUE
    ELSE IF kind = "BaseException" THEN FALSE
    ELSE IsInstance(Base(kind), cls)

\* what the collaborators called inside main's try block may raise
CollaboratorErrors ==
    { MkExc("FileNotFoundError", "model file missing"),
      MkExc("UnicodeDecodeError", "bad byte"),
      MkExc("ValueError", "invalid engine"),
      MkExc("PermissionError", "cannot write output"),
      MkExc("RuntimeError", "decode failed") }

Interrupted == MkExc("KeyboardInterrupt", "")

(***************************************************************************)
(* The command line.  argv.input is the positional argument: None when it  *)
(* is not given, else the string typed (possibly empty).  bad_choices are  *)
(* the options typed with a value outside their choices list.              *)
(***************************************************************************)
ChoiceOptions == {"engine", "device", "compute_type", "format"}

BadChoiceSets == {{}} \cup {{o} : o \in ChoiceOptions} \cup {{"engine", "format"}}

NoInput == [is_none |-> TRUE, path |-> NoPath]

MkInput(p) == [is_none |-> FALSE, path |-> p]

ArgvInputs == {NoInput, MkInput(NoPath)} \cup {MkInput(p) : p \in InputPaths}

Argvs ==
    [input : ArgvInputs, bad_choices : BadChoiceSets, skip_existing : BOOLEAN,
     no_skip : BOOLEAN, no_save : BOOLEAN, quiet : BOOLEAN, verbose : BOOLEAN,
     no_normalize : BOOLEAN]

\* action="store_true": the flag stores True, its absence leaves the default
StoreTrue(given, default) == IF given THEN TRUE ELSE default

\* create_parser + parse_args, for a command line argparse accepts
ParsedArgs(a) ==
    [input |-> a.input,
     skip_existing |-> StoreTrue(a.skip_existing, TRUE),
     no_skip |-> StoreTrue(a.no_skip, FALSE),
     no_save |-> StoreTrue(a.no_save, FALSE),
     quiet |-> StoreTrue(a.quiet, FALSE),
     verbose |-> StoreTrue(a.verbose, FALSE),
     no_normalize |-> StoreTrue(a.no_normalize, FALSE)]

NoArgs == ParsedArgs([input |-> NoInput, bad_choices |-> {},
                      skip_existing |-> FALSE, no_skip |-> FALSE,
                      no_save |-> FALSE, quiet |-> FALSE, verbose |-> FALSE,
                      no_normalize |-> FALSE])

\* the test `args.input is None`
IsNotNone(inp) == ~inp.is_none

\* Python truth of args.input: None and "" are false
Truthy(inp) == ~inp.is_none /\ inp.path # NoPath

(***************************************************************************)
(* Values of main's locals                                                 *)
(***************************************************************************)
NoConfig == [built |-> FALSE, normalizer_enabled |-> TRUE, verbose |-> FALSE]

NoCallArgs == [callee |-> "none", skip_existing |-> FALSE, save_output |-> FALSE,
               progress_callback |-> FALSE]

NoCalls == [validate_input |-> 0, TranscriberConfig |-> 0,
            PersianAudioTranscriber |-> 0, transcribe_file |-> 0,
            scan_and_transcribe |-> 0]

NoError == "<no error key>"

ErrorMessages == {"decode failed", "timeout"}

NoResult == [returned |-> FALSE, text |-> "", output_path |-> NoPath]

FileNames == <<"a.mp3", "b.wav", "c.mp3", "d.flac", "e.m4a">>

\* "error" in r
HasError(r) == r.error # NoError

\* a printed line
MkLine(kind, file, text, n, total) ==
    [kind |-> kind, file |-> file, text |-> text, n |-> n, total |-> total]

\* a logger call
MkLog(level, msg, traceback) == [level |-> level, msg |-> msg, traceback |-> traceback]

(***************************************************************************)
(* Pure parts of main                                                      *)
(***************************************************************************)
\* parse_args without the choices lists
ParseArgsNeverRejects(a) == FALSE

\* parse_args ends in parser.error when an option's value is not among its choices
ParseArgsRejects(a) == a.bad_choices # {}

\* the level main asks setup_logging for
SetupLoggingLevel(a) ==
    IF a.quiet THEN "ERROR" ELSE IF a.verbose THEN "DEBUG" ELSE "config"

\* validate_input without its existence check
ValidateInputNoExistsCheck(p, kind) ==
    IF kind = "file" /\ Lower(p.suffix) \notin SUPPORTED_EXTENSIONS
    THEN MkExc("ValueError", "Unsupported file format")
    ELSE NoExc

\* validate_input comparing the suffix as typed
ValidateInputCaseSensitive(p, kind) ==
    IF kind = "missing" THEN MkExc("FileNotFoundError", "Input path not found")
    ELSE IF kind = "file" /\ p.suffix \notin SUPPORTED_EXTENSIONS
         THEN MkExc("ValueError", "Unsupported file format")
    ELSE NoExc

\* validate_input: the exception it raises, NoExc when it returns p
ValidateInput(p, kind) ==
    IF kind = "missing" THEN MkExc("FileNotFoundError", "Input path not found")
    ELSE IF kind = "file" /\ Lower(p.suffix) \notin SUPPORTED_EXTENSIONS
         THEN MkExc("ValueError", "Unsupported file format")
    ELSE NoExc

\* skip_existing taken from the --skip-existing flag
SkipExistingFromFlag(a) == a.skip_existing

\* skip_existing = not args.no_skip
SkipExisting(a) == ~a.no_skip

\* a callback supplied whatever the flags
ProgressCallbackAlways(a) == TRUE

\* progress_callback=None if args.quiet else print_progress
ProgressCallback(a) == ~a.quiet

\* print_progress(current, total, filename)
PrintProgress(current, total, filename) == MkLine("progress", filename, "", current, total)

\* save_output=not args.no_save
SaveOutput(a) == ~a.no_save

\* the count with the membership test inverted
RECURSIVE CountWithError(_)
CountWithError(rs) ==
    IF rs = <<>> THEN 0
    ELSE (IF HasError(Head(rs)) THEN 1 ELSE 0) + CountWithError(Tail(rs))

\* sum(1 for r in results if "error" not in r)
RECURSIVE CountSuccessful(_)
CountSuccessful(rs) ==
    IF rs = <<>> THEN 0
    ELSE (IF HasError(Head(rs)) THEN 0 ELSE 1) + CountSuccessful(Tail(rs))

\* [r for r in results if "error" in r]
FailedResults(rs) == SelectSeq(rs, HasError)

\* the "    - file: error" lines
FailedLines(fs) ==
    [i \in 1..Len(fs) |-> MkLine("failed_file", fs[i].file, fs[i].error, 0, 0)]

\* whether main prints the failed listing
PrintsFailed(n, rs) == n < Len(rs)

\* the except clause of main that takes the exception, in textual order
ExceptClause(e) ==
    IF IsInstance(e.kind, "FileNotFoundError") THEN "FileNotFoundError"
    ELSE IF IsInstance(e.kind, "ValueError") THEN "ValueError"
    ELSE IF IsInstance(e.kind, "KeyboardInterrupt") THEN "KeyboardInterrupt"
    ELSE IF IsInstance(e.kind, "Exception") THEN "Exception"
    ELSE "none"

\* every clause returning 1
ClauseReturnsAlwaysError(clause) == EXIT_ERROR

\* the clauses for Exception classes returning 0
ClauseReturnsSwallows(clause) ==
    IF clause = "KeyboardInterrupt" THEN EXIT_INTERRUPT ELSE EXIT_OK

\* the value the clause returns
ClauseReturns(clause) ==
    IF clause = "KeyboardInterrupt" THEN EXIT_INTERRUPT ELSE EXIT_ERROR

(***************************************************************************)
(* The collaborators of main whose code is in transcriber.py               *)
(***************************************************************************)
\* where transcribe_file saves the transcription of p
OutputPathOf(p) == MkPath(p.stem, ".txt")

\* what transcribe_file returns for p
TranscribeFileResult(p, save_output) ==
    [returned |-> TRUE, text |-> "hello",
     output_path |-> IF save_output THEN OutputPathOf(p) ELSE NoPath]

\* the outcomes of one item of a batch
ItemOutcomes(skip_existing) ==
    {[status |-> "transcribed", error |-> NoError]}
    \cup (IF skip_existing THEN {[status |-> "skipped", error |-> NoError]} ELSE {})
    \cup {[status |-> "failed", error |-> m] : m \in ErrorMessages}

\* the result lists scan_and_transcribe may return: one result per item
ScanResults(skip_existing) ==
    UNION { { [i \in 1..n |-> [file |-> FileNames[i], status |-> o[i].status,
                               error |-> o[i].error]] :
              o \in [1..n -> ItemOutcomes(skip_existing)] } : n \in 0..MaxResults }

\* the output files a batch leaves behind
BatchOutputs(rs) ==
    { MkPath(rs[i].file, ".txt") : i \in {j \in 1..Len(rs) : rs[j].status = "transcribed"} }

\* what the progress callback prints during scan_and_transcribe: it is called
\* after each item, whatever the item's outcome, when a callback was supplied
ProgressLines(supplied, rs) ==
    IF supplied
    THEN [i \in 1..Len(rs) |-> PrintProgress(i, Len(rs), rs[i].file)]
    ELSE <<>>

(***************************************************************************)
(* cli.main                                                                *)
(***************************************************************************)
CliStart ==
    /\ pc = "parse_args"
    /\ args = NoArgs
    /\ logging_level = "unset"
    /\ input_path = NoPath
    /\ config = NoConfig
    /\ transcriber = NoConfig
    /\ calls = NoCalls
    /\ call_args = NoCallArgs
    /\ result = NoResult
    /\ results = <<>>
    /\ successful = 0
    /\ failed = <<>>
    /\ exc = NoExc
    /\ stdout = <<>>
    /\ logged = <<>>
    /\ written = {}
    /\ status = 0

CliIdle ==
    /\ argv = [input |-> NoInput, bad_choices |-> {}, skip_existing |-> FALSE,
               no_skip |-> FALSE, no_save |-> FALSE, quiet |-> FALSE,
               verbose |-> FALSE, no_normalize |-> FALSE]
    /\ fs_kind = "missing"
    /\ CliStart

Ex1Idle ==
    /\ recordings = {}
    /\ engine = <<>>
    /\ audio_files = <<>>
    /\ ex1_pc = "idle"
    /\ ex1_i = 0
    /\ ex1_results = <<>>
    /\ ex1_attempts = <<>>
    /\ ex1_stdout = <<>>
    /\ ex1_saved = <<>>
    /\ audio_dir_exists = FALSE

Ex4Idle ==
    /\ ex4_pc = "idle"
    /\ ex4_run = 0
    /\ ex4_recordings = {}
    /\ ex4_files = <<>>
    /\ ex4_i = 0
    /\ transcriptions = {}
    /\ ex4_before = {}
    /\ ex4_invoked = <<>>
    /\ ex4_report = <<>>
    /\ ex4_audio_dir = FALSE

NoBar == [total |-> 0, n |-> 0]

Ex3Idle ==
    /\ ex3_pc = "idle" /\ ex3_audio_dir = FALSE /\ ex3_recordings = {}
    /\ ex3_files = <<>> /\ ex3_i = 0 /\ ex3_results = <<>>
    /\ pbar = NoBar /\ pbar_updates = <<>>

Ex2Idle ==
    /\ ex2_pc = "idle" /\ ex2_audio_dir = FALSE /\ ex2_recordings = {}
    /\ ex2_files = <<>> /\ tasks = <<>> /\ transcribers = <<>>
    /\ ex2_results = <<>> /\ ex2_collected = {} /\ ex2_stdout = <<>>

\* None, for a string or a path
None == "<None>"

\* a key that is not given, and a key given with a value
Missing == [given |-> FALSE]
Given(v) == [given |-> TRUE, value |-> v]

\* the level argument: None, a level name, or a number
NoLevel == [kind |-> "none", name |-> "", no |-> 0]
LevelName(s) == [kind |-> "str", name |-> s, no |-> 0]
LevelNo(n) == [kind |-> "int", name |-> "", no |-> n]

NoCall == [level |-> NoLevel, log_file |-> None, log_format |-> None,
           date_format |-> None, use_colors |-> Missing, quiet |-> FALSE,
           verbose |-> FALSE, called |-> FALSE]

NoRecord == [levelno |-> 0, console |-> 0, file |-> 0]

NoCache == [loaded |-> FALSE]

\* the threads, none of them inside the module
Threads == 1..MaxThreads
ThreadsIdle == threads = [t \in Threads |-> [pc |-> "idle", via |-> "none", a |-> NoCall]]

\* the module as imported, with no configuration file
LogIdle ==
    /\ ThreadsIdle
    /\ yaml_logging = [level |-> Missing, log_file_path |-> Missing, format |-> Missing,
                       date_format |-> Missing, use_colors |-> Missing]
    /\ config_cache = NoCache /\ initialized = FALSE /\ loggers = {}
    /\ pkg_level = 0 /\ pkg_handlers = <<>> /\ pkg_propagate = TRUE
    /\ last_call = NoCall /\ last_record = NoRecord

Init ==
    /\ argv \in Argvs
    /\ fs_kind \in {"missing", "file", "dir"}
    /\ (argv.input.path = NoPath => fs_kind = "missing")
    /\ CliStart
    /\ Ex1Idle
    /\ Ex4Idle
    /\ Ex3Idle
    /\ Ex2Idle
    /\ LogIdle

\* where main waits in a collaborator that may raise or be interrupted
InCollaborator == pc \in {"build_config", "create_transcriber", "process"}

\* parser = create_parser(); args = parser.parse_args(argv)
ParseArgs ==
    /\ pc = "parse_args"
    /\ IF ParseArgsRejects(argv)
       THEN /\ pc' = "exited"
            /\ status' = EXIT_USAGE
            /\ UNCHANGED args
       ELSE /\ pc' = "setup_logging"
            /\ args' = ParsedArgs(argv)
            /\ UNCHANGED status
    /\ UNCHANGED <<nonCliVars, argv, fs_kind, logging_level, input_path, config, transcriber,
                   calls, call_args, result, results, successful, failed, exc,
                   stdout, logged, written>>

\* the setup_logging call
SetupLogging ==
    /\ pc = "setup_logging"
    /\ logging_level' = SetupLoggingLevel(args)
    /\ pc' = "check_input"
    /\ UNCHANGED <<nonCliVars, argv, fs_kind, args, input_path, config, transcriber, calls,
                   call_args, result, results, successful, failed, exc, stdout,
                   logged, written, status>>

\* if not args.input: parser.print_help(); return 1
CheckInput ==
    /\ pc = "check_input"
    /\ IF ~Truthy(args.input)
       THEN /\ stdout' = Append(stdout, MkLine("help", "", "", 0, 0))
            /\ status' = EXIT_ERROR
            /\ pc' = "returned"
       ELSE /\ pc' = "validate_input"
            /\ UNCHANGED <<stdout, status>>
    /\ UNCHANGED <<nonCliVars, argv, fs_kind, args, logging_level, input_path, config,
                   transcriber, calls, call_args, result, results, successful,
                   failed, exc, logged, written>>

\* input_path = validate_input(args.input)
ValidateInputStep ==
    /\ pc = "validate_input"
    /\ calls' = [calls EXCEPT !.validate_input = @ + 1]
    /\ LET e == ValidateInput(args.input.path, fs_kind) IN
       IF e = NoExc
       THEN /\ input_path' = args.input.path
            /\ pc' = "build_config"
            /\ UNCHANGED exc
       ELSE /\ exc' = e
            /\ pc' = "except"
            /\ UNCHANGED input_path
    /\ UNCHANGED <<nonCliVars, argv, fs_kind, args, logging_level, config, transcriber,
                   call_args, result, results, successful, failed, stdout,
                   logged, written, status>>

\* the order with the transcriber created before the toggle is applied
StepAfterCreatingFirst(p) ==
    CASE p = "build_config" -> "create_transcriber"
      [] p = "create_transcriber" -> "no_normalize"
      [] p = "no_normalize" -> "process"

\* the order of the statements of the try block between validate_input and
\* the processing branch
StepAfter(p) ==
    CASE p = "build_config" -> "no_normalize"
      [] p = "no_normalize" -> "create_transcriber"
      [] p = "create_transcriber" -> "process"

\* config = TranscriberConfig(...)
BuildConfig ==
    /\ pc = "build_config"
    /\ calls' = [calls EXCEPT !.TranscriberConfig = @ + 1]
    /\ config' = [built |-> TRUE, normalizer_enabled |-> TRUE,
                  verbose |-> args.verbose]
    /\ pc' = StepAfter(pc)
    /\ UNCHANGED <<nonCliVars, argv, fs_kind, args, logging_level, input_path, transcriber,
                   call_args, result, results, successful, failed, exc, stdout,
                   logged, written, status>>

\* if args.no_normalize: config.normalizer.enabled = False
DisableNormalization ==
    /\ pc = "no_normalize"
    /\ config' = IF args.no_normalize
                 THEN [config EXCEPT !.normalizer_enabled = FALSE]
                 ELSE config
    /\ pc' = StepAfter(pc)
    /\ UNCHANGED <<nonCliVars, argv, fs_kind, args, logging_level, input_path, transcriber,
                   calls, call_args, result, results, successful, failed, exc,
                   stdout, logged, written, status>>

\* transcriber = PersianAudioTranscriber(config=config)
CreateTranscriber ==
    /\ pc = "create_transcriber"
    /\ calls' = [calls EXCEPT !.PersianAudioTranscriber = @ + 1]
    /\ transcriber' = config
    /\ pc' = StepAfter(pc)
    /\ UNCHANGED <<nonCliVars, argv, fs_kind, args, logging_level, input_path, config,
                   call_args, result, results, successful, failed, exc, stdout,
                   logged, written, status>>

\* the collaborator main calls at the position it is at
Callee ==
    CASE pc = "build_config" -> "TranscriberConfig"
      [] pc = "create_transcriber" -> "PersianAudioTranscriber"
      [] pc = "process" /\ fs_kind = "file" -> "transcribe_file"
      [] OTHER -> "scan_and_transcribe"

\* the keyword arguments main passes to the processing call
ProcessCallArgs(a, is_file) ==
    IF is_file
    THEN [callee |-> "transcribe_file", skip_existing |-> FALSE,
          save_output |-> SaveOutput(a), progress_callback |-> FALSE]
    ELSE [callee |-> "scan_and_transcribe", skip_existing |-> SkipExisting(a),
          save_output |-> FALSE, progress_callback |-> ProgressCallback(a)]

\* result = transcriber.transcribe_file(input_path, ...), when it returns
TranscribeFile ==
    /\ pc = "process"
    /\ fs_kind = "file"
    /\ calls' = [calls EXCEPT !.transcribe_file = @ + 1]
    /\ call_args' = ProcessCallArgs(args, TRUE)
    /\ result' = TranscribeFileResult(input_path, call_args'.save_output)
    /\ written' = IF call_args'.save_output
                  THEN written \cup {OutputPathOf(input_path)}
                  ELSE written
    /\ pc' = "report_single"
    /\ UNCHANGED <<nonCliVars, argv, fs_kind, args, logging_level, input_path, config,
                   transcriber, results, successful, failed, exc, stdout,
                   logged, status>>

\* the prints of the single-file branch, then return 0
ReportSingle ==
    /\ pc = "report_single"
    /\ stdout' = IF args.no_save
                 THEN Append(stdout, MkLine("text", "", result.text, 0, 0))
                 ELSE stdout \o << MkLine("saved", result.output_path.stem, "", 0, 0),
                                   MkLine("duration", "", "", 0, 0),
                                   MkLine("processing_time", "", "", 0, 0) >>
    /\ status' = EXIT_OK
    /\ pc' = "returned"
    /\ UNCHANGED <<nonCliVars, argv, fs_kind, args, logging_level, input_path, config,
                   transcriber, calls, call_args, result, results, successful,
                   failed, exc, logged, written>>

\* results = transcriber.scan_and_transcribe(input_path, ...), when it returns
ScanAndTranscribe ==
    /\ pc = "process"
    /\ fs_kind # "file"
    /\ calls' = [calls EXCEPT !.scan_and_transcribe = @ + 1]
    /\ call_args' = ProcessCallArgs(args, FALSE)
    /\ results' \in ScanResults(call_args'.skip_existing)
    /\ written' = written \cup BatchOutputs(results')
    /\ stdout' = stdout \o ProgressLines(call_args'.progress_callback, results')
    /\ pc' = "summary"
    /\ UNCHANGED <<nonCliVars, argv, fs_kind, args, logging_level, input_path, config,
                   transcriber, result, successful, failed, exc,
                   logged, status>>

\* the summary of the batch branch, then the return at the end of the try block
SummaryReturning(code_if_failed) ==
    /\ pc = "summary"
    /\ successful' = CountSuccessful(results)
    /\ failed' = IF PrintsFailed(successful', results)
                 THEN FailedResults(results) ELSE <<>>
    /\ stdout' = stdout
                 \o << MkLine("complete", "", "", 0, 0),
                       MkLine("successful", "", "", successful', Len(results)) >>
                 \o (IF PrintsFailed(successful', results)
                     THEN <<MkLine("failed_header", "", "", 0, 0)>> \o FailedLines(failed')
                     ELSE <<>>)
    /\ status' = IF PrintsFailed(successful', results) THEN code_if_failed ELSE EXIT_OK
    /\ pc' = "returned"
    /\ UNCHANGED <<nonCliVars, argv, fs_kind, args, logging_level, input_path, config,
                   transcriber, calls, call_args, result, results, exc, logged,
                   written>>

SummaryExitsOneOnFailure == SummaryReturning(EXIT_ERROR)

\* the summary, then return 0
Summary == SummaryReturning(EXIT_OK)

\* the call main waits in ends with the exception e
RaisedInCall(e) ==
    /\ InCollaborator
    /\ calls' = [calls EXCEPT ![Callee] = @ + 1]
    /\ call_args' = IF pc = "process"
                    THEN ProcessCallArgs(args, fs_kind = "file")
                    ELSE call_args
    /\ exc' = e
    /\ pc' = "except"
    /\ UNCHANGED <<nonCliVars, argv, fs_kind, args, logging_level, input_path, config,
                   transcriber, result, results, successful, failed, stdout,
                   logged, written, status>>

\* a collaborator raises
CollaboratorRaises == \E e \in CollaboratorErrors : RaisedInCall(e)

\* the user interrupts a collaborator
KeyboardInterruptRaised == RaisedInCall(Interrupted)

\* the body of an except clause that logs and returns
LogAndReturn(clause, traceback) ==
    /\ pc = "except"
    /\ ExceptClause(exc) = clause
    /\ logged' = Append(logged, MkLog("ERROR", exc.msg, traceback))
    /\ status' = ClauseReturns(clause)
    /\ pc' = "returned"
    /\ UNCHANGED <<nonCliVars, argv, fs_kind, args, logging_level, input_path, config,
                   transcriber, calls, call_args, result, results, successful,
                   failed, exc, stdout, written>>

\* except FileNotFoundError as e: logger.error(str(e)); return 1
ExceptFileNotFoundError == LogAndReturn("FileNotFoundError", FALSE)

\* except ValueError as e: logger.error(str(e)); return 1
ExceptValueError == LogAndReturn("ValueError", FALSE)

\* except KeyboardInterrupt: print("\nInterrupted by user"); return 130
ExceptKeyboardInterrupt ==
    /\ pc = "except"
    /\ ExceptClause(exc) = "KeyboardInterrupt"
    /\ stdout' = Append(stdout, MkLine("interrupted", "", "", 0, 0))
    /\ status' = ClauseReturns("KeyboardInterrupt")
    /\ pc' = "returned"
    /\ UNCHANGED <<nonCliVars, argv, fs_kind, args, logging_level, input_path, config,
                   transcriber, calls, call_args, result, results, successful,
                   failed, exc, logged, written>>

\* except Exception as e: logger.exception(...); return 1
ExceptException == LogAndReturn("Exception", TRUE)

Next ==
    \/ ParseArgs
    \/ SetupLogging
    \/ CheckInput
    \/ ValidateInputStep
    \/ BuildConfig
    \/ DisableNormalization
    \/ CreateTranscriber
    \/ TranscribeFile
    \/ ReportSingle
    \/ ScanAndTranscribe
    \/ Summary
    \/ CollaboratorRaises
    \/ KeyboardInterruptRaised
    \/ ExceptFileNotFoundError
    \/ ExceptValueError
    \/ ExceptKeyboardInterrupt
    \/ ExceptException

Spec == Init /\ [][Next]_vars

(***************************************************************************)
(* example_1_transcribe_directory                                          *)
(***************************************************************************)
\* the entries ./recordings may hold
DirEntries == {FileNames[i] : i \in 1..MaxFiles} \cup {"notes.txt"}

ExtOf(f) ==
    CASE f \in {"a.mp3", "c.mp3"} -> ".mp3"
      [] f = "b.wav" -> ".wav"
      [] f = "d.flac" -> ".flac"
      [] f = "e.m4a" -> ".m4a"
      [] OTHER -> ".txt"

\* for ext in [".mp3", ".wav", ".flac", ".m4a"]
Ex1Extensions == <<".mp3", ".wav", ".flac", ".m4a">>

\* audio_dir.glob(f"*{ext}"): the matching entries, in the order the filesystem lists them
Glob(dir, ext) ==
    LET m == {f \in dir : ExtOf(f) = ext} IN
    {s \in [1..Cardinality(m) -> m] : \A i, j \in 1..Cardinality(m) : s[i] = s[j] => i = j}

\* audio_files after extend() for the first n extensions
RECURSIVE GlobAll(_, _)
GlobAll(dir, n) ==
    IF n = 0 THEN {<<>>}
    ELSE {a \o g : a \in GlobAll(dir, n - 1), g \in Glob(dir, Ex1Extensions[n])}

\* what transcriber.transcribe_file does for a file: returns a dictionary or raises
EngineOutcomes ==
    {[kind |-> "ok", text |-> "hello", has_duration |-> d, msg |-> ""] : d \in BOOLEAN}
    \cup {[kind |-> "raise", text |-> "", has_duration |-> FALSE, msg |-> m] :
            m \in ErrorMessages}

\* result.get("duration", 0), for an engine that reports 2 seconds when it reports
Ex1Duration(o) == IF o.has_duration THEN 2 ELSE 0

\* the dictionary appended after a successful call
Ex1SuccessEntry(f, o) ==
    [file |-> f, text |-> o.text, duration |-> Ex1Duration(o), success |-> TRUE]

\* the dictionary appended by the except clause
Ex1FailureEntry(f, o) == [file |-> f, error |-> o.msg, success |-> FALSE]

InitEx1 ==
    /\ CliIdle
    /\ Ex4Idle
    /\ Ex3Idle
    /\ Ex2Idle
    /\ LogIdle
    /\ audio_dir_exists \in BOOLEAN
    /\ recordings \in SUBSET DirEntries
    /\ (~audio_dir_exists => recordings = {})
    /\ engine \in [recordings \ {"notes.txt"} -> EngineOutcomes]
    /\ audio_files = <<>>
    /\ ex1_pc = "start"
    /\ ex1_i = 0
    /\ ex1_results = <<>>
    /\ ex1_attempts = <<>>
    /\ ex1_stdout = <<>>
    /\ ex1_saved = <<>>

\* if not audio_dir.exists(): mkdir and return
Ex1NoDirectory ==
    /\ ex1_pc = "start"
    /\ ~audio_dir_exists
    /\ audio_dir_exists' = TRUE
    /\ ex1_stdout' = ex1_stdout \o << MkLine("not_found", "", "", 0, 0),
                                      MkLine("creating", "", "", 0, 0) >>
    /\ ex1_pc' = "returned"
    /\ UNCHANGED <<nonEx1Vars, recordings, engine, audio_files, ex1_i, ex1_results,
                   ex1_attempts, ex1_saved>>

\* the glob loop and the "Found n audio files" line
Ex1Discover ==
    /\ ex1_pc = "start"
    /\ audio_dir_exists
    /\ audio_files' \in GlobAll(recordings, Len(Ex1Extensions))
    /\ ex1_stdout' = Append(ex1_stdout, MkLine("found", "", "", Len(audio_files'), 0))
    /\ ex1_pc' = "loop"
    /\ UNCHANGED <<nonEx1Vars, recordings, engine, ex1_i, ex1_results, ex1_attempts,
                   ex1_saved, audio_dir_exists>>

\* one iteration whose transcribe_file call returns
Ex1TranscribeReturns ==
    /\ ex1_pc = "loop"
    /\ ex1_i < Len(audio_files)
    /\ LET f == audio_files[ex1_i + 1] IN
       /\ engine[f].kind = "ok"
       /\ ex1_i' = ex1_i + 1
       /\ ex1_attempts' = Append(ex1_attempts, f)
       /\ ex1_results' = Append(ex1_results, Ex1SuccessEntry(f, engine[f]))
       /\ ex1_stdout' = ex1_stdout
                        \o << MkLine("processing", f, "", ex1_i', Len(audio_files)),
                              MkLine("success", "", engine[f].text, 0, 0) >>
    /\ UNCHANGED <<nonEx1Vars, recordings, engine, audio_files, ex1_pc, ex1_saved,
                   audio_dir_exists>>

\* the iteration without its try/except: the exception ends the example
Ex1TranscribeRaisesUncaught ==
    /\ ex1_pc = "loop"
    /\ ex1_i < Len(audio_files)
    /\ LET f == audio_files[ex1_i + 1] IN
       /\ engine[f].kind = "raise"
       /\ ex1_i' = ex1_i + 1
       /\ ex1_attempts' = Append(ex1_attempts, f)
       /\ ex1_stdout' = Append(ex1_stdout,
                               MkLine("processing", f, "", ex1_i', Len(audio_files)))
    /\ ex1_pc' = "returned"
    /\ UNCHANGED <<nonEx1Vars, recordings, engine, audio_files, ex1_results, ex1_saved,
                   audio_dir_exists>>

\* one iteration whose transcribe_file call raises an Exception
Ex1TranscribeRaises ==
    /\ ex1_pc = "loop"
    /\ ex1_i < Len(audio_files)
    /\ LET f == audio_files[ex1_i + 1] IN
       /\ engine[f].kind = "raise"
       /\ ex1_i' = ex1_i + 1
       /\ ex1_attempts' = Append(ex1_attempts, f)
       /\ ex1_results' = Append(ex1_results, Ex1FailureEntry(f, engine[f]))
       /\ ex1_stdout' = ex1_stdout
                        \o << MkLine("processing", f, "", ex1_i', Len(audio_files)),
                              MkLine("failed", "", engine[f].msg, 0, 0) >>
    /\ UNCHANGED <<nonEx1Vars, recordings, engine, audio_files, ex1_pc, ex1_saved,
                   audio_dir_exists>>

\* json.dump(results, f) once the loop has ended
Ex1SaveResults ==
    /\ ex1_pc = "loop"
    /\ ex1_i >= Len(audio_files)
    /\ ex1_saved' = ex1_results
    /\ ex1_stdout' = Append(ex1_stdout, MkLine("results_saved", "", "", 0, 0))
    /\ ex1_pc' = "returned"
    /\ UNCHANGED <<nonEx1Vars, recordings, engine, audio_files, ex1_i, ex1_results,
                   ex1_attempts, audio_dir_exists>>

NextEx1 ==
    \/ Ex1NoDirectory
    \/ Ex1Discover
    \/ Ex1TranscribeReturns
    \/ Ex1TranscribeRaises
    \/ Ex1SaveResults

SpecEx1 == InitEx1 /\ [][NextEx1]_vars

(***************************************************************************)
(* example_4_incremental_output, run twice in a row over the same          *)
(* ./recordings                                                            *)
(***************************************************************************)
Mp3Names == <<"a.mp3", "c.mp3", "f.mp3", "g.mp3", "h.mp3">>

\* the entries ./recordings may hold
Ex4Entries == {Mp3Names[i] : i \in 1..MaxMp3} \cup {"b.wav"}

\* audio_file.stem
StemOf(f) ==
    CASE f = "a.mp3" -> "a"
      [] f = "c.mp3" -> "c"
      [] f = "f.mp3" -> "f"
      [] f = "g.mp3" -> "g"
      [] f = "h.mp3" -> "h"
      [] OTHER -> "b"

\* list(audio_dir.glob("*.mp3")): the MP3 entries, in the order the filesystem lists them
GlobMp3(dir) ==
    LET m == {f \in dir : f \in {Mp3Names[i] : i \in 1..Len(Mp3Names)}} IN
    {s \in [1..Cardinality(m) -> m] : \A i, j \in 1..Cardinality(m) : s[i] = s[j] => i = j}

\* output_file = output_dir / f"{audio_file.stem}.txt"
OutputFileOf(f) == MkPath(StemOf(f), ".txt")

\* the existence test without effect
OutputNeverExists(dir, f) == FALSE

\* output_file.exists()
OutputExists(dir, f) == \E o \in dir : o.path = OutputFileOf(f)

\* ./transcriptions after transcribe_file saved text at output_path
SaveTranscription(dir, f, text) ==
    {o \in dir : o.path # OutputFileOf(f)} \cup {[path |-> OutputFileOf(f), text |-> text]}

\* an output file left by an earlier run
OldTranscription(f) == [path |-> OutputFileOf(f), text |-> "old"]

MkReport(run, file, what) == [run |-> run, file |-> file, status |-> what]

InitEx4 ==
    /\ CliIdle
    /\ Ex1Idle
    /\ Ex3Idle
    /\ Ex2Idle
    /\ LogIdle
    /\ ex4_pc = "start"
    /\ ex4_run = 1
    /\ ex4_audio_dir \in BOOLEAN
    /\ ex4_recordings \in SUBSET Ex4Entries
    /\ (~ex4_audio_dir => ex4_recordings = {})
    /\ transcriptions \in SUBSET {OldTranscription(f) : f \in ex4_recordings \ {"b.wav"}}
    /\ ex4_files = <<>>
    /\ ex4_i = 0
    /\ ex4_before = {}
    /\ ex4_invoked = <<>>
    /\ ex4_report = <<>>

\* the run returns before its loop: ./recordings is missing or holds no MP3 file
Ex4NothingToDo ==
    /\ ex4_pc = "start"
    /\ ~ex4_audio_dir \/ GlobMp3(ex4_recordings) = {<<>>}
    /\ ex4_pc' = "returned"
    /\ UNCHANGED <<nonEx4Vars, ex4_run, ex4_recordings, ex4_files, ex4_i,
                   transcriptions, ex4_before, ex4_invoked, ex4_report,
                   ex4_audio_dir>>

\* audio_files = list(audio_dir.glob("*.mp3")), and the transcriber is created
Ex4Discover ==
    /\ ex4_pc = "start"
    /\ ex4_audio_dir
    /\ GlobMp3(ex4_recordings) # {<<>>}
    /\ ex4_files' \in GlobMp3(ex4_recordings)
    /\ ex4_i' = 0
    /\ ex4_pc' = "loop"
    /\ UNCHANGED <<nonEx4Vars, ex4_run, ex4_recordings, transcriptions,
                   ex4_before, ex4_invoked, ex4_report, ex4_audio_dir>>

\* if output_file.exists(): print the skip line; continue
Ex4Skip ==
    /\ ex4_pc = "loop"
    /\ ex4_i < Len(ex4_files)
    /\ OutputExists(transcriptions, ex4_files[ex4_i + 1])
    /\ ex4_i' = ex4_i + 1
    /\ ex4_report' = Append(ex4_report, MkReport(ex4_run, ex4_files[ex4_i + 1], "skipped"))
    /\ UNCHANGED <<nonEx4Vars, ex4_pc, ex4_run, ex4_recordings, ex4_files,
                   transcriptions, ex4_before, ex4_invoked, ex4_audio_dir>>

\* transcribe_file(str(audio_file), output_path=str(output_file)) returns
Ex4TranscribeReturns ==
    /\ ex4_pc = "loop"
    /\ ex4_i < Len(ex4_files)
    /\ ~OutputExists(transcriptions, ex4_files[ex4_i + 1])
    /\ ex4_i' = ex4_i + 1
    /\ ex4_invoked' = Append(ex4_invoked, [run |-> ex4_run, file |-> ex4_files[ex4_i + 1]])
    /\ transcriptions' = SaveTranscription(transcriptions, ex4_files[ex4_i + 1], "hello")
    /\ ex4_report' = Append(ex4_report, MkReport(ex4_run, ex4_files[ex4_i + 1], "saved"))
    /\ UNCHANGED <<nonEx4Vars, ex4_pc, ex4_run, ex4_recordings, ex4_files,
                   ex4_before, ex4_audio_dir>>

\* transcribe_file raises an Exception: the failure line is printed
Ex4TranscribeRaises ==
    /\ ex4_pc = "loop"
    /\ ex4_i < Len(ex4_files)
    /\ ~OutputExists(transcriptions, ex4_files[ex4_i + 1])
    /\ ex4_i' = ex4_i + 1
    /\ ex4_invoked' = Append(ex4_invoked, [run |-> ex4_run, file |-> ex4_files[ex4_i + 1]])
    /\ ex4_report' = Append(ex4_report, MkReport(ex4_run, ex4_files[ex4_i + 1], "failed"))
    /\ UNCHANGED <<nonEx4Vars, ex4_pc, ex4_run, ex4_recordings, ex4_files,
                   transcriptions, ex4_before, ex4_audio_dir>>

\* the loop has ended: "All files processed"
Ex4Finish ==
    /\ ex4_pc = "loop"
    /\ ex4_i >= Len(ex4_files)
    /\ ex4_pc' = "returned"
    /\ UNCHANGED <<nonEx4Vars, ex4_run, ex4_recordings, ex4_files, ex4_i,
                   transcriptions, ex4_before, ex4_invoked, ex4_report,
                   ex4_audio_dir>>

\* the example is run a second time
Ex4RunAgain ==
    /\ ex4_pc = "returned"
    /\ ex4_run = 1
    /\ ex4_run' = 2
    /\ ex4_before' = transcriptions
    /\ ex4_pc' = "start"
    /\ UNCHANGED <<nonEx4Vars, ex4_recordings, ex4_files, ex4_i, transcriptions,
                   ex4_invoked, ex4_report, ex4_audio_dir>>

NextEx4 ==
    \/ Ex4NothingToDo
    \/ Ex4Discover
    \/ Ex4Skip
    \/ Ex4TranscribeReturns
    \/ Ex4TranscribeRaises
    \/ Ex4Finish
    \/ Ex4RunAgain

SpecEx4 == InitEx4 /\ [][NextEx4]_vars

(***************************************************************************)
(* example_3_progress_callback                                             *)
(***************************************************************************)
InitEx3 ==
    /\ CliIdle
    /\ Ex1Idle
    /\ Ex4Idle
    /\ Ex2Idle
    /\ LogIdle
    /\ ex3_pc = "start"
    /\ ex3_audio_dir \in BOOLEAN
    /\ ex3_recordings \in SUBSET Ex4Entries
    /\ (~ex3_audio_dir => ex3_recordings = {})
    /\ ex3_files = <<>>
    /\ ex3_i = 0
    /\ ex3_results = <<>>
    /\ pbar = NoBar
    /\ pbar_updates = <<>>

\* ./recordings is missing or holds no MP3 file: the example returns
Ex3NothingToDo ==
    /\ ex3_pc = "start"
    /\ ~ex3_audio_dir \/ GlobMp3(ex3_recordings) = {<<>>}
    /\ ex3_pc' = "returned"
    /\ UNCHANGED <<nonEx3Vars, ex3_audio_dir, ex3_recordings, ex3_files, ex3_i,
                   ex3_results, pbar, pbar_updates>>

\* audio_files = list(audio_dir.glob("*.mp3")); tqdm(total=len(audio_files))
Ex3Discover ==
    /\ ex3_pc = "start"
    /\ ex3_audio_dir
    /\ GlobMp3(ex3_recordings) # {<<>>}
    /\ ex3_files' \in GlobMp3(ex3_recordings)
    /\ pbar' = [total |-> Len(ex3_files'), n |-> 0]
    /\ ex3_pc' = "loop"
    /\ UNCHANGED <<nonEx3Vars, ex3_audio_dir, ex3_recordings, ex3_i, ex3_results,
                   pbar_updates>>

\* transcribe_file returns: the success entry is appended
Ex3TranscribeReturns ==
    /\ ex3_pc = "loop"
    /\ ex3_i < Len(ex3_files)
    /\ ex3_i' = ex3_i + 1
    /\ ex3_results' = Append(ex3_results,
                             [file |-> ex3_files[ex3_i'], text |-> "hello", success |-> TRUE])
    /\ ex3_pc' = "update"
    /\ UNCHANGED <<nonEx3Vars, ex3_audio_dir, ex3_recordings, ex3_files, pbar,
                   pbar_updates>>

\* transcribe_file raises an Exception: the failure entry is appended
Ex3TranscribeRaises ==
    /\ ex3_pc = "loop"
    /\ ex3_i < Len(ex3_files)
    /\ ex3_i' = ex3_i + 1
    /\ \E m \in ErrorMessages :
         ex3_results' = Append(ex3_results,
                               [file |-> ex3_files[ex3_i'], error |-> m, success |-> FALSE])
    /\ ex3_pc' = "update"
    /\ UNCHANGED <<nonEx3Vars, ex3_audio_dir, ex3_recordings, ex3_files, pbar,
                   pbar_updates>>

\* pbar.update(1), after the try statement
Ex3PbarUpdate ==
    /\ ex3_pc = "update"
    /\ pbar' = [pbar EXCEPT !.n = @ + 1]
    /\ pbar_updates' = Append(pbar_updates,
                              [n |-> pbar'.n, total |-> pbar.total,
                               handled |-> Len(ex3_results)])
    /\ ex3_pc' = "loop"
    /\ UNCHANGED <<nonEx3Vars, ex3_audio_dir, ex3_recordings, ex3_files, ex3_i,
                   ex3_results>>

\* the loop has ended: the bar is closed and the count is printed
Ex3Finish ==
    /\ ex3_pc = "loop"
    /\ ex3_i >= Len(ex3_files)
    /\ ex3_pc' = "returned"
    /\ UNCHANGED <<nonEx3Vars, ex3_audio_dir, ex3_recordings, ex3_files, ex3_i,
                   ex3_results, pbar, pbar_updates>>

(***************************************************************************)
(* example_2_parallel_processing: the main thread and the pool's workers   *)
(***************************************************************************)
\* ThreadPoolExecutor(max_workers=4)
MaxWorkers == 4

\* the entries ./recordings may hold
Ex2Entries == {Mp3Names[i] : i \in 1..MaxTasks} \cup {"b.wav"}

Pending == [kind |-> "pending"]

\* the future of a call that returned r
Returned(r) == [kind |-> "result", result |-> r]

\* the future of a call that raised
Raised(m) == [kind |-> "exception", msg |-> m]

\* the instance every task would share
TranscriberShared(k, ts) == 1

\* the instance transcribe_one's constructor call gives task k: a new one
TranscriberFor(k, ts) == Len(ts) + 1

\* the tasks a worker is running
Running == {k \in 1..Len(tasks) : tasks[k].state = "transcribing"}

\* sum(1 for r in results if r["success"])
Ex2Successful(rs) == Cardinality({i \in 1..Len(rs) : rs[i].success})

\* sum(r.get("processing_time", 0) for r in results if r["success"])
RECURSIVE TotalProcessing(_)
TotalProcessing(rs) ==
    IF rs = <<>> THEN 0
    ELSE (IF Head(rs).success THEN Head(rs).processing_time ELSE 0)
         + TotalProcessing(Tail(rs))

InitEx2 ==
    /\ CliIdle
    /\ Ex1Idle
    /\ Ex4Idle
    /\ Ex3Idle
    /\ LogIdle
    /\ ex2_pc = "start"
    /\ ex2_audio_dir \in BOOLEAN
    /\ ex2_recordings \in SUBSET Ex2Entries
    /\ (~ex2_audio_dir => ex2_recordings = {})
    /\ ex2_files = <<>>
    /\ tasks = <<>>
    /\ transcribers = <<>>
    /\ ex2_results = <<>>
    /\ ex2_collected = {}
    /\ ex2_stdout = <<>>

\* ./recordings is missing or holds no MP3 file: the example returns
Ex2NothingToDo ==
    /\ ex2_pc = "start"
    /\ ~ex2_audio_dir \/ GlobMp3(ex2_recordings) = {<<>>}
    /\ ex2_pc' = "returned"
    /\ UNCHANGED <<nonEx2Vars, ex2_audio_dir, ex2_recordings, ex2_files, tasks,
                   transcribers, ex2_results, ex2_collected, ex2_stdout>>

\* audio_files = list(audio_dir.glob("*.mp3")); the pool is created
Ex2Discover ==
    /\ ex2_pc = "start"
    /\ ex2_audio_dir
    /\ GlobMp3(ex2_recordings) # {<<>>}
    /\ ex2_files' \in GlobMp3(ex2_recordings)
    /\ ex2_pc' = "submit"
    /\ UNCHANGED <<nonEx2Vars, ex2_audio_dir, ex2_recordings, tasks,
                   transcribers, ex2_results, ex2_collected, ex2_stdout>>

\* executor.submit(transcribe_one, audio_file), for the next audio_file
Ex2Submit ==
    /\ ex2_pc = "submit"
    /\ tasks' = Append(tasks, [file |-> ex2_files[Len(tasks) + 1], state |-> "queued",
                               transcriber |-> 0, future |-> Pending])
    /\ ex2_pc' = IF Len(tasks') = Len(ex2_files) THEN "collect" ELSE "submit"
    /\ UNCHANGED <<nonEx2Vars, ex2_audio_dir, ex2_recordings, ex2_files,
                   transcribers, ex2_results, ex2_collected, ex2_stdout>>

\* a free worker takes a queued task: transcribe_one constructs its transcriber
TaskConstructs ==
    \E k \in 1..Len(tasks) :
        /\ tasks[k].state = "queued"
        /\ Cardinality(Running) < MaxWorkers
        /\ transcribers' = Append(transcribers, [task |-> k, ok |-> TRUE, used_for |-> <<>>])
        /\ tasks' = [tasks EXCEPT ![k].state = "transcribing",
                                  ![k].transcriber = TranscriberFor(k, transcribers)]
        /\ UNCHANGED <<nonEx2Vars, ex2_pc, ex2_audio_dir, ex2_recordings, ex2_files,
                       ex2_results, ex2_collected, ex2_stdout>>

\* a free worker takes a queued task and the constructor call raises: it is
\* outside transcribe_one's try statement, so the future holds the exception
TaskConstructorRaises ==
    \E k \in 1..Len(tasks) :
        /\ tasks[k].state = "queued"
        /\ Cardinality(Running) < MaxWorkers
        /\ transcribers' = Append(transcribers, [task |-> k, ok |-> FALSE, used_for |-> <<>>])
        /\ tasks' = [tasks EXCEPT ![k].state = "done",
                                  ![k].future = Raised("model load failed")]
        /\ UNCHANGED <<nonEx2Vars, ex2_pc, ex2_audio_dir, ex2_recordings, ex2_files,
                       ex2_results, ex2_collected, ex2_stdout>>

\* transcriber.transcribe_file returns: transcribe_one returns the success entry
TaskTranscribeReturns ==
    \E k \in 1..Len(tasks) :
        /\ tasks[k].state = "transcribing"
        /\ transcribers' = [transcribers EXCEPT ![tasks[k].transcriber].used_for =
                               Append(@, [task |-> k, file |-> tasks[k].file])]
        /\ tasks' = [tasks EXCEPT ![k].state = "done",
                                  ![k].future = Returned([file |-> tasks[k].file,
                                                          text |-> "hello",
                                                          duration |-> 2,
                                                          processing_time |-> 1,
                                                          success |-> TRUE])]
        /\ UNCHANGED <<nonEx2Vars, ex2_pc, ex2_audio_dir, ex2_recordings, ex2_files,
                       ex2_results, ex2_collected, ex2_stdout>>

\* transcriber.transcribe_file raises an Exception: transcribe_one returns the
\* failure entry
TaskTranscribeRaises ==
    \E k \in 1..Len(tasks), m \in ErrorMessages :
        /\ tasks[k].state = "transcribing"
        /\ transcribers' = [transcribers EXCEPT ![tasks[k].transcriber].used_for =
                               Append(@, [task |-> k, file |-> tasks[k].file])]
        /\ tasks' = [tasks EXCEPT ![k].state = "done",
                                  ![k].future = Returned([file |-> tasks[k].file,
                                                          error |-> m,
                                                          success |-> FALSE])]
        /\ UNCHANGED <<nonEx2Vars, ex2_pc, ex2_audio_dir, ex2_recordings, ex2_files,
                       ex2_results, ex2_collected, ex2_stdout>>

\* as_completed yields a finished future whose call returned: the main thread
\* appends future.result() and prints its line
Ex2CollectResult ==
    \E k \in 1..Len(tasks) \ ex2_collected :
        /\ ex2_pc = "collect"
        /\ tasks[k].state = "done"
        /\ tasks[k].future.kind = "result"
        /\ ex2_collected' = ex2_collected \cup {k}
        /\ ex2_results' = Append(ex2_results, tasks[k].future.result)
        /\ ex2_stdout' = Append(ex2_stdout,
                                MkLine(IF tasks[k].future.result.success THEN "ok" ELSE "failed",
                                       tasks[k].file, "", 0, 0))
        /\ UNCHANGED <<nonEx2Vars, ex2_pc, ex2_audio_dir, ex2_recordings, ex2_files,
                       tasks, transcribers>>

\* as_completed yields a finished future whose call raised: future.result()
\* raises, and the except clause prints the unexpected-error line
Ex2CollectException ==
    \E k \in 1..Len(tasks) \ ex2_collected :
        /\ ex2_pc = "collect"
        /\ tasks[k].state = "done"
        /\ tasks[k].future.kind = "exception"
        /\ ex2_collected' = ex2_collected \cup {k}
        /\ ex2_stdout' = Append(ex2_stdout,
                                MkLine("unexpected", tasks[k].file, tasks[k].future.msg, 0, 0))
        /\ UNCHANGED <<nonEx2Vars, ex2_pc, ex2_audio_dir, ex2_recordings, ex2_files,
                       tasks, transcribers, ex2_results>>

\* every future was yielded: the statistics are printed; the speed line
\* divides by the total processing time
Ex2Statistics ==
    /\ ex2_pc = "collect"
    /\ ex2_collected = 1..Len(tasks)
    /\ ex2_stdout' = ex2_stdout
           \o <<MkLine("completed", "", "", Ex2Successful(ex2_results), Len(ex2_results))>>
           \o (IF TotalProcessing(ex2_results) = 0 THEN <<>>
               ELSE <<MkLine("speed", "", "", 0, 0)>>)
    /\ ex2_pc' = IF TotalProcessing(ex2_results) = 0 THEN "ZeroDivisionError" ELSE "returned"
    /\ UNCHANGED <<nonEx2Vars, ex2_audio_dir, ex2_recordings, ex2_files, tasks,
                   transcribers, ex2_results, ex2_collected>>

NextEx2 ==
    \/ Ex2NothingToDo
    \/ Ex2Discover
    \/ Ex2Submit
    \/ TaskConstructs
    \/ TaskConstructorRaises
    \/ TaskTranscribeReturns
    \/ TaskTranscribeRaises
    \/ Ex2CollectResult
    \/ Ex2CollectException
    \/ Ex2Statistics

SpecEx2 == InitEx2 /\ [][NextEx2]_vars

(***************************************************************************)
(* utils/logging.py                                                        *)
(***************************************************************************)
DEFAULT_CONFIG ==
    [level |-> "INFO", log_file_path |-> None, format |-> "DEFAULT_FORMAT",
     date_format |-> "DEFAULT_DATE_FORMAT", use_colors |-> TRUE]

\* str.upper(), on the level names that occur
Upper(s) ==
    CASE s = "debug" -> "DEBUG"
      [] s = "warning" -> "WARNING"
      [] s = "trace" -> "TRACE"
      [] s = "bogus" -> "BOGUS"
      [] OTHER -> s

\* getattr(logging, name, logging.INFO)
GetLevel(name) ==
    CASE name = "DEBUG" -> 10
      [] name = "INFO" -> 20
      [] name = "WARNING" -> 30
      [] name = "ERROR" -> 40
      [] name = "CRITICAL" -> 50
      [] OTHER -> 20

\* _load_config(): the cached dictionary, or the defaults overridden by the
\* keys the file's logging section gives
LoadConfig ==
    IF config_cache.loaded THEN config_cache.config
    ELSE [k \in DOMAIN DEFAULT_CONFIG |->
            IF yaml_logging[k].given THEN yaml_logging[k].value ELSE DEFAULT_CONFIG[k]]

\* the level resolved with the file's value ahead of the arguments
ResolveLevelConfigFirst(a, cfg) == GetLevel(Upper(cfg.level))

\* the "Determine log level" statement of setup_logging
ResolveLevel(a, cfg) ==
    IF a.verbose THEN GetLevel("DEBUG")
    ELSE IF a.level.kind # "none"
         THEN (IF a.level.kind = "str" THEN GetLevel(Upper(a.level.name)) ELSE a.level.no)
         ELSE GetLevel(Upper(cfg.level))

\* log_file, taken from config["log_file_path"] when the argument is None and
\* the configured path is not empty
ResolveLogFile(a, cfg) ==
    IF a.log_file = None /\ cfg.log_file_path \notin {None, ""}
    THEN cfg.log_file_path
    ELSE a.log_file

\* the StreamHandler(sys.stderr) setup_logging creates
ConsoleHandler(level, date_format, use_colors) ==
    [kind |-> "console", level |-> level, fmt |-> "CONSOLE_FORMAT",
     datefmt |-> date_format, use_colors |-> use_colors]

\* the FileHandler setup_logging creates
FileHandler(log_file, log_format, date_format) ==
    [kind |-> "file", level |-> GetLevel("DEBUG"), fmt |-> log_format,
     datefmt |-> date_format, path |-> log_file]

\* setup_logging(**a), from _load_config() to _initialized = True
setup_logging(a) ==
    LET cfg == LoadConfig
        level == ResolveLevel(a, cfg)
        log_file == ResolveLogFile(a, cfg)
        use_colors == IF ~a.use_colors.given THEN cfg.use_colors ELSE a.use_colors.value
        log_format == IF a.log_format = None THEN cfg.format ELSE a.log_format
        date_format == IF a.date_format = None THEN cfg.date_format ELSE a.date_format
    IN
    /\ config_cache' = [loaded |-> TRUE, config |-> cfg]
    /\ pkg_level' = level
    /\ pkg_handlers' =
          (IF ~a.quiet THEN <<ConsoleHandler(level, date_format, use_colors)>> ELSE <<>>)
          \o (IF log_file # None THEN <<FileHandler(log_file, log_format, date_format)>>
              ELSE <<>>)
    /\ pkg_propagate' = FALSE
    /\ initialized' = TRUE
    /\ last_call' = [a EXCEPT !.called = TRUE]

\* the arguments a caller may pass to setup_logging
LevelArgs == {NoLevel, LevelName("debug"), LevelName("ERROR"), LevelName("trace"), LevelNo(30)}

SetupArgs ==
    [level : LevelArgs, log_file : {None, "run.log"}, log_format : {None, "%(message)s"},
     date_format : {None, "%H:%M"}, use_colors : {Missing, Given(TRUE), Given(FALSE)},
     quiet : BOOLEAN, verbose : BOOLEAN, called : {TRUE}]

\* the calls that leave format, date format and colours to the configuration
PlainSetupArgs ==
    {a \in SetupArgs : a.log_format = None /\ a.date_format = None /\ ~a.use_colors.given}

\* the logging sections config.yaml may hold
YamlSections ==
    [level : {Missing, Given("warning"), Given("bogus")},
     log_file_path : {Missing, Given("app.log"), Given("")},
     format : {Missing, Given("%(levelname)s")},
     date_format : {Missing, Given("%d/%m")},
     use_colors : {Missing, Given(FALSE)}]

\* the first call of setup_logging in the process, with the arguments drawn
SetupLoggingFirst ==
    /\ ~initialized
    /\ setup_logging(last_call)
    /\ UNCHANGED <<nonLogVars, yaml_logging, loggers, last_record>>

\* a process about to call setup_logging: any configuration file, any arguments
InitResolve ==
    /\ CliIdle /\ Ex1Idle /\ Ex4Idle /\ Ex3Idle /\ Ex2Idle /\ ThreadsIdle
    /\ yaml_logging \in YamlSections
    /\ config_cache = NoCache /\ initialized = FALSE /\ loggers = {}
    /\ pkg_level = 0 /\ pkg_handlers = <<>> /\ pkg_propagate = TRUE
    /\ last_call \in {[a EXCEPT !.called = FALSE] : a \in SetupArgs}
    /\ last_record = NoRecord

NextResolve == SetupLoggingFirst

SpecResolve == InitResolve /\ [][NextResolve]_vars

\* a call of setup_logging that leaves format, date format and colours to
\* the configuration
SetupLoggingCall ==
    /\ \E a \in PlainSetupArgs : setup_logging(a)
    /\ last_record' = NoRecord
    /\ UNCHANGED <<nonLogVars, yaml_logging, loggers>>

\* set_log_level(level): the package logger and each of its handlers
SetLogLevel ==
    \E l \in LevelArgs \ {NoLevel} :
        LET level == IF l.kind = "str" THEN GetLevel(Upper(l.name)) ELSE l.no IN
        /\ pkg_level' = level
        /\ pkg_handlers' = [i \in 1..Len(pkg_handlers) |->
                              [pkg_handlers[i] EXCEPT !.level = level]]
        /\ last_record' = NoRecord
        /\ UNCHANGED <<nonLogVars, yaml_logging, config_cache, initialized, loggers,
                       pkg_propagate, last_call>>

\* the name get_logger looks up: the package prefix is added to a short name
FullName(name) ==
    IF name = "persian_transcriber.engines" THEN name ELSE "persian_transcriber.cli"

\* the test that initializes on every call
NeedsSetupAlways == TRUE

\* if not _initialized:
NeedsSetup == ~initialized

\* get_logger(name): setup_logging() first when nothing was initialized
GetLogger ==
    \E name \in {"cli", "persian_transcriber.engines"} :
        /\ IF NeedsSetup
           THEN setup_logging(NoCall)
           ELSE UNCHANGED <<config_cache, initialized, pkg_level, pkg_handlers,
                            pkg_propagate, last_call>>
        /\ loggers' = loggers \cup {FullName(name)}
        /\ UNCHANGED <<nonLogVars, yaml_logging, last_record>>

\* Logger.getEffectiveLevel() of a package logger: the loggers below
\* "persian_transcriber" have no level of their own, the root logger has WARNING
EffectiveLevel == IF pkg_level # 0 THEN pkg_level ELSE GetLevel("WARNING")

\* how often Logger.callHandlers writes a record of level l to handlers of a
\* kind: once per handler of the package logger whose level admits it
Handled(l, kind) ==
    Cardinality({i \in 1..Len(pkg_handlers) :
                    pkg_handlers[i].kind = kind /\ l >= pkg_handlers[i].level})

\* logging.lastResort writes the record to sys.stderr: no handler was found
\* and the record is at least a WARNING
LastResort(l) == pkg_handlers = <<>> /\ l >= GetLevel("WARNING")

\* a record is logged through a package logger
LogRecord ==
    \E name \in {"DEBUG", "INFO", "WARNING", "ERROR"} :
        LET l == GetLevel(name) IN
        /\ initialized
        /\ last_record' =
              IF l >= EffectiveLevel
              THEN [levelno |-> l,
                    console |-> Handled(l, "console") + (IF LastResort(l) THEN 1 ELSE 0),
                    file |-> Handled(l, "file")]
              ELSE [levelno |-> l, console |-> 0, file |-> 0]
        /\ UNCHANGED <<nonLogVars, yaml_logging, config_cache, initialized, loggers,
                       pkg_level, pkg_handlers, pkg_propagate, last_call>>

\* a freshly imported module, with any level and log file in config.yaml
InitLog ==
    /\ CliIdle /\ Ex1Idle /\ Ex4Idle /\ Ex3Idle /\ Ex2Idle /\ ThreadsIdle
    /\ yaml_logging \in {y \in YamlSections :
                            ~y.format.given /\ ~y.date_format.given /\ ~y.use_colors.given}
    /\ config_cache = NoCache /\ initialized = FALSE /\ loggers = {}
    /\ pkg_level = 0 /\ pkg_handlers = <<>> /\ pkg_propagate = TRUE
    /\ last_call = NoCall /\ last_record = NoRecord

NextLog ==
    \/ SetupLoggingCall
    \/ SetLogLevel
    \/ GetLogger
    \/ LogRecord

SpecLog == InitLog /\ [][NextLog]_vars

(***************************************************************************)
(* utils/logging.py called from several threads: setup_logging statement   *)
(* by statement                                                            *)
(***************************************************************************)
\* the arguments the threads pass to setup_logging: quiet or not, the rest
\* left to the configuration
ThreadArgs ==
    {a \in PlainSetupArgs : a.level = NoLevel /\ ~a.verbose /\ a.log_file = None}

\* thread t moves on to the statement at p
Goto(t, p) == threads' = [threads EXCEPT ![t].pc = p]

\* a thread calls setup_logging(**a): config = _load_config() and the settings
\* are resolved into locals
ThreadCallsSetup ==
    \E t \in Threads, a \in ThreadArgs :
        /\ threads[t].pc = "idle"
        /\ config_cache' = [loaded |-> TRUE, config |-> LoadConfig]
        /\ threads' = [threads EXCEPT ![t] = [pc |-> "clear", via |-> "setup_logging", a |-> a]]
        /\ UNCHANGED <<nonThreadVars, yaml_logging, initialized, loggers, pkg_level,
                       pkg_handlers, pkg_propagate, last_call, last_record>>

\* a thread calls get_logger(name): it enters setup_logging() when
\* _initialized is false, otherwise it caches the logger and returns
ThreadCallsGetLogger ==
    \E t \in Threads :
        /\ threads[t].pc = "idle"
        /\ IF NeedsSetup
           THEN /\ config_cache' = [loaded |-> TRUE, config |-> LoadConfig]
                /\ threads' = [threads EXCEPT ![t] = [pc |-> "clear", via |-> "get_logger",
                                                      a |-> [NoCall EXCEPT !.called = TRUE]]]
                /\ UNCHANGED loggers
           ELSE /\ loggers' = loggers \cup {FullName("cli")}
                /\ UNCHANGED <<config_cache, threads>>
        /\ UNCHANGED <<nonThreadVars, yaml_logging, initialized, pkg_level,
                       pkg_handlers, pkg_propagate, last_call, last_record>>

\* root_logger.handlers.clear()
ThreadClear ==
    \E t \in Threads :
        /\ threads[t].pc = "clear"
        /\ pkg_handlers' = <<>>
        /\ Goto(t, "set_level")
        /\ UNCHANGED <<nonThreadVars, yaml_logging, config_cache, initialized, loggers,
                       pkg_level, pkg_propagate, last_call, last_record>>

\* root_logger.setLevel(level)
ThreadSetLevel ==
    \E t \in Threads :
        /\ threads[t].pc = "set_level"
        /\ pkg_level' = ResolveLevel(threads[t].a, LoadConfig)
        /\ Goto(t, "console")
        /\ UNCHANGED <<nonThreadVars, yaml_logging, config_cache, initialized, loggers,
                       pkg_handlers, pkg_propagate, last_call, last_record>>

\* if not quiet: root_logger.addHandler(console_handler)
ThreadAddConsole ==
    \E t \in Threads :
        LET a == threads[t].a
            cfg == LoadConfig
        IN
        /\ threads[t].pc = "console"
        /\ pkg_handlers' =
              IF ~a.quiet
              THEN Append(pkg_handlers,
                          ConsoleHandler(ResolveLevel(a, cfg), cfg.date_format, cfg.use_colors))
              ELSE pkg_handlers
        /\ Goto(t, "file")
        /\ UNCHANGED <<nonThreadVars, yaml_logging, config_cache, initialized, loggers,
                       pkg_level, pkg_propagate, last_call, last_record>>

\* if log_file is not None: root_logger.addHandler(file_handler)
ThreadAddFile ==
    \E t \in Threads :
        LET a == threads[t].a
            cfg == LoadConfig
            log_file == ResolveLogFile(a, cfg)
        IN
        /\ threads[t].pc = "file"
        /\ pkg_handlers' =
              IF log_file # None
              THEN Append(pkg_handlers, FileHandler(log_file, cfg.format, cfg.date_format))
              ELSE pkg_handlers
        /\ Goto(t, "finish")
        /\ UNCHANGED <<nonThreadVars, yaml_logging, config_cache, initialized, loggers,
                       pkg_level, pkg_propagate, last_call, last_record>>

\* root_logger.propagate = False; _initialized = True; return; get_logger
\* then caches the logger
ThreadFinish ==
    \E t \in Threads :
        /\ threads[t].pc = "finish"
        /\ pkg_propagate' = FALSE
        /\ initialized' = TRUE
        /\ last_call' = threads[t].a
        /\ loggers' = IF threads[t].via = "get_logger"
                      THEN loggers \cup {FullName("cli")} ELSE loggers
        /\ threads' = [threads EXCEPT ![t] = [pc |-> "idle", via |-> "none", a |-> NoCall]]
        /\ UNCHANGED <<nonThreadVars, yaml_logging, config_cache, pkg_level,
                       pkg_handlers, last_record>>

\* a freshly imported module, with or without a log file in config.yaml
InitThreads ==
    /\ CliIdle /\ Ex1Idle /\ Ex4Idle /\ Ex3Idle /\ Ex2Idle /\ ThreadsIdle
    /\ yaml_logging \in {y \in YamlSections :
                            /\ ~y.level.given /\ y.log_file_path # Given("")
                            /\ ~y.format.given /\ ~y.date_format.given
                            /\ ~y.use_colors.given}
    /\ config_cache = NoCache /\ initialized = FALSE /\ loggers = {}
    /\ pkg_level = 0 /\ pkg_handlers = <<>> /\ pkg_propagate = TRUE
    /\ last_call = NoCall /\ last_record = NoRecord

NextThreads ==
    \/ ThreadCallsSetup
    \/ ThreadCallsGetLogger
    \/ ThreadClear
    \/ ThreadSetLevel
    \/ ThreadAddConsole
    \/ ThreadAddFile
    \/ ThreadFinish

SpecThreads == InitThreads /\ [][NextThreads]_vars

(***************************************************************************)
(* Progress reporting: a run of cli.main, or a run of example_3            *)
(***************************************************************************)
InitProgress == Init \/ InitEx3

NextProgress ==
    \/ ParseArgs
    \/ SetupLogging
    \/ CheckInput
    \/ ValidateInputStep
    \/ BuildConfig
    \/ DisableNormalization
    \/ CreateTranscriber
    \/ TranscribeFile
    \/ ReportSingle
    \/ ScanAndTranscribe
    \/ Summary
    \/ CollaboratorRaises
    \/ KeyboardInterruptRaised
    \/ ExceptFileNotFoundError
    \/ ExceptValueError
    \/ ExceptKeyboardInterrupt
    \/ ExceptException
    \/ Ex3NothingToDo
    \/ Ex3Discover
    \/ Ex3TranscribeReturns
    \/ Ex3TranscribeRaises
    \/ Ex3PbarUpdate
    \/ Ex3Finish

SpecProgress == InitProgress /\ [][NextProgress]_vars

(***************************************************************************)
(* Properties                                                              *)
(***************************************************************************)
\* the indices of the results that carry an error
ErrorIndices(rs) == {i \in 1..Len(rs) : rs[i].error # NoError}

\* scan_and_transcribe returned and main has returned
BatchCompleted ==
    pc = "returned" /\ call_args.callee = "scan_and_transcribe" /\ exc = NoExc

\* the lines of a kind main printed, in print order
Printed(kind) == SelectSeq(stdout, LAMBDA l : l.kind = kind)

\* C1: in example_1's loop every discovered file is handed to transcribe_file
\* once, in discovery order, whatever the earlier calls did; there is one
\* result per attempted file, in the same order; the result of a file whose
\* call raised is a failure with the file's name and the exception's message;
\* the result of any other file is the success entry of its own outcome, so
\* it does not depend on which other files failed; and the loop ends with
\* exactly as many results as files were discovered.
C1_FailureIsolation ==
    /\ ex1_attempts = SubSeq(audio_files, 1, ex1_i)
    /\ Len(ex1_results) = ex1_i
    /\ \A j \in 1..Len(ex1_results) :
         LET f == audio_files[j]
             o == engine[f]
         IN IF o.kind = "raise"
            THEN ex1_results[j] = [file |-> f, error |-> o.msg, success |-> FALSE]
            ELSE ex1_results[j] =
                   [file |-> f, text |-> o.text,
                    duration |-> IF o.has_duration THEN 2 ELSE 0, success |-> TRUE]
    /\ (ex1_pc = "returned" =>
          /\ Len(ex1_results) = Len(audio_files)
          /\ ex1_saved = ex1_results)

\* C1 witness: a batch of three whose second call raised and whose first and
\* third were processed normally
C1_Witness ==
    /\ ex1_pc = "returned"
    /\ Len(audio_files) = 3
    /\ Len(ex1_results) = 3
    /\ engine[audio_files[1]].kind = "ok"
    /\ engine[audio_files[2]].kind = "raise"
    /\ engine[audio_files[3]].kind = "ok"
    /\ ~ex1_results[2].success
    /\ ex1_results[3].success

\* C2: in batch mode, once scan_and_transcribe has returned a list with at
\* least one result that carries no error, main prints the summary and returns
\* 0, however many results carry an error.
C2_BatchReturnsZero ==
    (BatchCompleted /\ ErrorIndices(results) # 1..Len(results)) =>
        /\ status = EXIT_OK
        /\ Len(Printed("complete")) = 1
        /\ Len(Printed("successful")) = 1

\* C2 witness: a completed batch of three with two failures and one success
C2_Witness ==
    /\ BatchCompleted
    /\ Len(results) = 3
    /\ Cardinality(ErrorIndices(results)) = 2
    /\ status = EXIT_OK

\* C3: in batch mode, when the run completes and no item succeeded (every
\* result carries an error, or there is no result), main returns a non-zero
\* exit code.
C3_NoSuccessNonZero ==
    (BatchCompleted /\ ErrorIndices(results) = 1..Len(results)) => status # EXIT_OK

\* the index of the k-th result that carries an error
NthError(rs, k) ==
    CHOOSE i \in ErrorIndices(rs) : Cardinality({j \in ErrorIndices(rs) : j < i}) = k - 1

\* C4: the summary is a reduction of the result list: the successful count
\* printed is the number of results without an error, successful plus the
\* number of listed failures is the number of results, the listing holds the
\* results that carry an error, each once, in result order, with file and
\* message, and it is printed exactly when some result failed.
C4_SummaryReduction ==
    BatchCompleted =>
        LET listed == Printed("failed_file")
            line == Printed("successful")[1]
        IN /\ successful = Len(results) - Cardinality(ErrorIndices(results))
           /\ line.n = successful
           /\ line.total = Len(results)
           /\ successful + Len(listed) = Len(results)
           /\ Len(listed) = Cardinality(ErrorIndices(results))
           /\ \A k \in 1..Len(listed) :
                /\ listed[k].file = results[NthError(results, k)].file
                /\ listed[k].text = results[NthError(results, k)].error
           /\ (Len(Printed("failed_header")) = 1) <=> (ErrorIndices(results) # {})
           /\ Len(Printed("failed_header")) <= 1
           /\ failed = [k \in 1..Len(listed) |-> results[NthError(results, k)]]

\* C4 witness: a.mp3 succeeded and b.wav failed with "decode failed":
\* successful 1 of 2, b.wav listed with its message
C4_Witness ==
    /\ BatchCompleted
    /\ Len(results) = 2
    /\ results[1].file = "a.mp3" /\ results[1].error = NoError
    /\ results[2].file = "b.wav" /\ results[2].error = "decode failed"
    /\ successful = 1
    /\ Printed("failed_file") = <<MkLine("failed_file", "b.wav", "decode failed", 0, 0)>>

\* C5: past argument parsing and logging setup, every exception raised in the
\* try block is taken by one of main's except clauses, and main returns 0, 1
\* or 130: 0 only when nothing was raised, 130 exactly when a
\* KeyboardInterrupt was raised, 1 for every other exception.
C5_ExitCodes ==
    /\ (pc = "except" => ExceptClause(exc) # "none")
    /\ (pc = "returned" =>
          /\ status \in {EXIT_OK, EXIT_ERROR, EXIT_INTERRUPT}
          /\ (status = EXIT_OK =>
                /\ exc = NoExc
                /\ calls.validate_input = 1
                /\ calls.TranscriberConfig = 1
                /\ calls.PersianAudioTranscriber = 1
                /\ calls.transcribe_file + calls.scan_and_transcribe = 1)
          /\ (status = EXIT_INTERRUPT <=> exc.kind = "KeyboardInterrupt")
          /\ ((exc # NoExc /\ exc.kind # "KeyboardInterrupt") => status = EXIT_ERROR))

\* C5 witness: the user interrupted the processing call and main returned 130
C5_Witness ==
    /\ pc = "returned"
    /\ exc.kind = "KeyboardInterrupt"
    /\ calls.transcribe_file + calls.scan_and_transcribe = 1
    /\ status = EXIT_INTERRUPT

\* the run has ended: main returned, or SystemExit left parse_args
Ended == pc \in {"returned", "exited"}

\* the command line has no usable input argument
InputAbsent == argv.input.is_none \/ argv.input.path = NoPath

\* the input is a file whose extension is not supported
InputUnsupported ==
    /\ ~InputAbsent
    /\ fs_kind = "file"
    /\ argv.input.path.suffix \notin {".mp3", ".WAV"}

\* the input path is not on disk
InputMissing == ~InputAbsent /\ fs_kind = "missing"

\* the checks main makes itself reject the command line
RejectedByMain == InputAbsent \/ InputMissing \/ InputUnsupported

\* C6 as stated: every invocation with invalid arguments, an option value
\* outside its choices included, ends with exit status 1.
C6_InvalidArgumentsExitOne ==
    (Ended /\ (argv.bad_choices # {} \/ RejectedByMain)) => status = EXIT_ERROR

\* C6 amended: an option value outside its choices ends the run inside
\* parse_args with exit status 2, before main does anything else; a command
\* line argparse accepts and main's own checks reject (no input, path not
\* found, unsupported format) ends with main returning 1.
C6_UsageErrorsExitTwo ==
    /\ (argv.bad_choices # {} =>
          /\ pc \in {"parse_args", "exited"}
          /\ (pc = "exited" => status = EXIT_USAGE)
          /\ calls = NoCalls
          /\ logging_level = "unset")
    /\ (argv.bad_choices = {} => pc # "exited")
    /\ ((pc = "returned" /\ RejectedByMain) => status = EXIT_ERROR)
    /\ (RejectedByMain => pc \in {"parse_args", "exited", "setup_logging",
                                  "check_input", "validate_input", "except",
                                  "returned"})

\* C6 witness: --engine with a value outside its choices ended the run with 2
C6_Witness ==
    /\ pc = "exited"
    /\ argv.bad_choices = {"engine"}
    /\ ~InputAbsent
    /\ fs_kind = "file"
    /\ status = EXIT_USAGE

\* C7: without an input argument, or with an empty one, main prints the help
\* text and returns 1, and never validates a path, builds a configuration,
\* creates a transcriber or calls transcribe_file or scan_and_transcribe.
C7_NoInputHelp ==
    InputAbsent =>
        /\ calls = NoCalls
        /\ config = NoConfig
        /\ transcriber = NoConfig
        /\ input_path = NoPath
        /\ pc \in {"parse_args", "exited", "setup_logging", "check_input", "returned"}
        /\ (pc = "returned" =>
              /\ status = EXIT_ERROR
              /\ stdout = <<MkLine("help", "", "", 0, 0)>>
              /\ logged = <<>>)

\* C7 witness: main returned 1 for an empty input argument
C7_Witness ==
    /\ pc = "returned"
    /\ ~argv.input.is_none
    /\ argv.input.path = NoPath
    /\ status = EXIT_ERROR
    /\ Len(Printed("help")) = 1

\* C8: the skip_existing value handed to scan_and_transcribe is true exactly
\* when --no-skip is absent, whether or not --skip-existing was given.
C8_SkipExistingDefault ==
    call_args.callee = "scan_and_transcribe" =>
        (call_args.skip_existing <=> ~argv.no_skip)

\* C8 witness: both flags given, and the scan was called with skip_existing false
C8_Witness ==
    /\ call_args.callee = "scan_and_transcribe"
    /\ calls.scan_and_transcribe = 1
    /\ argv.skip_existing
    /\ argv.no_skip
    /\ ~call_args.skip_existing

\* the input is a single file of a supported format and argparse accepts the line
SingleSupportedFile ==
    /\ argv.bad_choices = {}
    /\ ~InputAbsent
    /\ fs_kind = "file"
    /\ argv.input.path.suffix \in {".mp3", ".WAV"}

\* main printed the transcription, or where it was saved
ResultReported ==
    IF argv.no_save
    THEN Printed("text") = <<MkLine("text", "", "hello", 0, 0)>>
    ELSE Printed("saved") = <<MkLine("saved", argv.input.path.stem, "", 0, 0)>>

\* main logged the exception, or printed the interrupt notice
ErrorSurfaced ==
    \/ Len(logged) = 1 /\ logged[1].level = "ERROR" /\ logged[1].msg = exc.msg
    \/ exc.kind = "KeyboardInterrupt" /\ Len(Printed("interrupted")) = 1

\* C9 amended: a single supported file is never silently dropped:
\* transcribe_file is called at most once, and exactly once in every run that
\* reaches the processing step; main ends in exactly one of two ways: the
\* result is reported and main returns 0, or an exception was raised (by that
\* call, or earlier while the configuration or the transcriber was built), main
\* surfaces it and returns a non-zero code; main never returns 0 without a
\* reported result.
C9_SingleFileNeverDropped ==
    SingleSupportedFile =>
        /\ calls.transcribe_file <= 1
        /\ calls.scan_and_transcribe = 0
        /\ (pc \in {"report_single"} \/ call_args.callee = "transcribe_file"
              => calls.transcribe_file = 1)
        /\ (pc = "returned" =>
              \/ /\ status = EXIT_OK
                 /\ exc = NoExc
                 /\ calls.transcribe_file = 1
                 /\ result.returned
                 /\ ResultReported
                 /\ logged = <<>>
              \/ /\ status # EXIT_OK
                 /\ exc # NoExc
                 /\ ErrorSurfaced
                 /\ ~result.returned
                 /\ Printed("text") = <<>>
                 /\ Printed("saved") = <<>>)

\* C9 as stated: for a single supported file main calls transcribe_file
\* exactly once, and ends either with the result reported and 0, or with that
\* call having raised, the error surfaced and a non-zero code.
C9_CalledExactlyOnce ==
    (SingleSupportedFile /\ pc = "returned") =>
        /\ calls.transcribe_file = 1
        /\ \/ status = EXIT_OK /\ exc = NoExc /\ ResultReported
           \/ /\ status # EXIT_OK
              /\ exc # NoExc
              /\ call_args.callee = "transcribe_file"
              /\ ErrorSurfaced

\* C9 witness: transcribe_file raised for a supported file; main logged it and returned 1
C9_Witness ==
    /\ SingleSupportedFile
    /\ pc = "returned"
    /\ call_args.callee = "transcribe_file"
    /\ calls.transcribe_file = 1
    /\ exc.kind = "RuntimeError"
    /\ status = EXIT_ERROR
    /\ Len(logged) = 1

\* C10: if the input path does not exist, validation raises FileNotFoundError
\* and the run aborts: main returns 1, and before it returns no configuration
\* is built, no transcriber is created, and nothing is transcribed or written.
C10_MissingPathAborts ==
    InputMissing =>
        /\ calls.TranscriberConfig = 0
        /\ calls.PersianAudioTranscriber = 0
        /\ calls.transcribe_file = 0
        /\ calls.scan_and_transcribe = 0
        /\ config = NoConfig
        /\ transcriber = NoConfig
        /\ written = {}
        /\ (pc = "except" => exc.kind = "FileNotFoundError")
        /\ (pc = "returned" =>
              /\ status = EXIT_ERROR
              /\ exc.kind = "FileNotFoundError"
              /\ calls.validate_input = 1
              /\ Len(logged) = 1)

\* C10 witness: main returned 1 for a path that is not on disk
C10_Witness ==
    /\ InputMissing
    /\ pc = "returned"
    /\ exc.kind = "FileNotFoundError"
    /\ calls.validate_input = 1
    /\ status = EXIT_ERROR

\* the input is a single file and argparse accepts the command line
SingleFileInput == argv.bad_choices = {} /\ ~InputAbsent /\ fs_kind = "file"

\* validate_input raised its unsupported-format error
UnsupportedFormatRaised == exc = MkExc("ValueError", "Unsupported file format")

\* validate_input returned the path
InputAccepted == calls.validate_input = 1 /\ input_path = argv.input.path /\ pc # "validate_input"

\* C11: a single file is accepted by validate_input exactly when its
\* extension, compared without regard to case, is a supported one (.mp3 and
\* .WAV are, .pdf and no extension are not); otherwise validation raises the unsupported-format
\* error, main returns 1 and neither a configuration nor a transcriber is
\* created.  A directory is never rejected, whatever its name (clips.pdf).
C11_ExtensionDecidesAcceptance ==
    /\ (SingleFileInput /\ calls.validate_input = 1 =>
          /\ InputAccepted <=> argv.input.path.suffix \in {".mp3", ".WAV"}
          /\ UnsupportedFormatRaised <=> argv.input.path.suffix \in {".pdf", ""}
          /\ InputAccepted # UnsupportedFormatRaised)
    /\ (UnsupportedFormatRaised =>
          /\ fs_kind = "file"
          /\ calls.TranscriberConfig = 0
          /\ calls.PersianAudioTranscriber = 0
          /\ config = NoConfig
          /\ transcriber = NoConfig
          /\ pc \in {"except", "returned"}
          /\ (pc = "returned" => status = EXIT_ERROR /\ Len(logged) = 1))
    /\ (fs_kind = "dir" /\ calls.validate_input = 1 => InputAccepted)

\* C11 witness: B.WAV was accepted and transcribed
C11_Witness ==
    /\ SingleFileInput
    /\ argv.input.path = MkPath("B", ".WAV")
    /\ InputAccepted
    /\ pc = "returned"
    /\ status = EXIT_OK

\* C11 witness of the rejection: notes.pdf ended the run with 1
C11_RejectedWitness ==
    /\ SingleFileInput
    /\ argv.input.path = MkPath("notes", ".pdf")
    /\ UnsupportedFormatRaised
    /\ pc = "returned"
    /\ status = EXIT_ERROR


\* the lines one run of example_4 printed, in order
Ex4Reports(run) == SelectSeq(ex4_report, LAMBDA r : r.run = run)

\* the files one run of example_4 handed to the engine
Ex4Invocations(run) == SelectSeq(ex4_invoked, LAMBDA r : r.run = run)

SecondRunEnded == ex4_run = 2 /\ ex4_pc = "returned"

\* the output file of f was there when the second run began
HadOutput(f) == \E o \in ex4_before : o.path = OutputFileOf(f)

\* C12 as stated: after the second of two consecutive runs the output
\* directory is as it was when that run began, every item of the second run
\* is reported skipped and the engine was invoked for none of them.
C12_SecondRunSkipsAll ==
    SecondRunEnded =>
        /\ transcriptions = ex4_before
        /\ \A k \in 1..Len(Ex4Reports(2)) : Ex4Reports(2)[k].status = "skipped"
        /\ Ex4Invocations(2) = <<>>

\* C12 amended: in the second run an item whose output file existed when the
\* run began is skipped, the engine is not invoked for it and its output file
\* stays as it was; an item without an output file (it failed in the first
\* run) is handed to the engine again; and when no item failed in the first
\* run, the second run leaves the output directory unchanged, reports every
\* item skipped and invokes the engine for none.
C12_SkipExistingIdempotent ==
    ex4_run = 2 =>
        /\ ex4_before \subseteq transcriptions
        /\ \A k \in 1..Len(Ex4Reports(2)) :
             LET r == Ex4Reports(2)[k] IN
             /\ HadOutput(r.file) <=> r.status = "skipped"
             /\ HadOutput(r.file) <=>
                  ~\E j \in 1..Len(Ex4Invocations(2)) : Ex4Invocations(2)[j].file = r.file
             /\ ~HadOutput(r.file) =>
                  \E j \in 1..Len(Ex4Reports(1)) :
                     Ex4Reports(1)[j] = MkReport(1, r.file, "failed")
        /\ (SecondRunEnded /\ (\A j \in 1..Len(Ex4Reports(1)) : Ex4Reports(1)[j].status # "failed") =>
              /\ transcriptions = ex4_before
              /\ Len(Ex4Reports(2)) = Cardinality({f \in ex4_recordings : f # "b.wav"})
              /\ \A k \in 1..Len(Ex4Reports(2)) : Ex4Reports(2)[k].status = "skipped"
              /\ Ex4Invocations(2) = <<>>)

\* a second run that skipped an item saved in the first run and an item that
\* was there before, and tried an item again that had failed
C12_Witness ==
    /\ SecondRunEnded
    /\ \E i, j, k \in 1..Len(Ex4Reports(1)) :
         /\ Ex4Reports(1)[i].status = "failed"
         /\ Ex4Reports(1)[j].status = "saved"
         /\ Ex4Reports(1)[k].status = "skipped"
         /\ \E m, n \in 1..Len(Ex4Reports(2)) :
              /\ Ex4Reports(2)[m] = MkReport(2, Ex4Reports(1)[j].file, "skipped")
              /\ Ex4Reports(2)[n].file = Ex4Reports(1)[i].file
              /\ Ex4Reports(2)[n].status # "skipped"


\* C13: in example_3 the bar is advanced exactly once per item, after the
\* item's result was appended and whether the call returned or raised, with
\* the counter running 1..total and total the number of files; in main the
\* callback is supplied to scan_and_transcribe if and only if --quiet is not
\* set, and when it is supplied one progress line is printed per item, in
\* item order, with current running 1..total and total the number of items.
C13_ProgressOncePerItem ==
    /\ (ex3_pc \in {"loop", "update", "returned"} /\ ex3_files # <<>> =>
          /\ pbar.total = Len(ex3_files)
          /\ Len(pbar_updates) = pbar.n
          /\ \A k \in 1..Len(pbar_updates) :
               pbar_updates[k] = [n |-> k, total |-> Len(ex3_files), handled |-> k]
          /\ Len(ex3_results) = ex3_i
          /\ (ex3_pc = "update" => pbar.n = ex3_i - 1)
          /\ (ex3_pc # "update" => pbar.n = ex3_i)
          /\ (ex3_pc = "returned" => pbar.n = Len(ex3_files)))
    /\ (calls.scan_and_transcribe = 1 => (call_args.progress_callback <=> ~argv.quiet))
    /\ (BatchCompleted =>
          /\ (argv.quiet => Printed("progress") = <<>>)
          /\ (~argv.quiet =>
                /\ Len(Printed("progress")) = Len(results)
                /\ \A i \in 1..Len(results) :
                     Printed("progress")[i] =
                        MkLine("progress", results[i].file, "", i, Len(results))))

\* example_3 has ended after a file that failed and a file that succeeded,
\* and the bar was advanced for both
C13_Witness ==
    /\ ex3_pc = "returned"
    /\ \E i, j \in 1..Len(ex3_results) : ex3_results[i].success /\ ~ex3_results[j].success
    /\ Len(pbar_updates) = Len(ex3_results)
    /\ pbar.n = MaxMp3


\* C14: once the transcriber has been created with the configuration, no
\* step of main writes a field of the configuration: the normalization
\* toggle was applied before the creation, the configuration stays equal to
\* the snapshot the transcriber was created with, and so every item of the
\* run is processed under the same settings.
C14_ConfigFrozenAfterCreation ==
    /\ [](transcriber # NoConfig =>
            /\ config = transcriber
            /\ config.normalizer_enabled = ~argv.no_normalize)
    /\ [][transcriber # NoConfig => config' = config]_vars

\* a batch of several items has completed with normalization disabled
C14_Witness ==
    /\ BatchCompleted
    /\ argv.no_normalize
    /\ Len(results) >= 2
    /\ transcriber = [built |-> TRUE, normalizer_enabled |-> FALSE, verbose |-> argv.verbose]


\* the constructor calls task k has made
ConstructedBy(k) == {i \in 1..Len(transcribers) : transcribers[i].task = k}

\* C15: in the parallel batch each file is submitted to exactly one task;
\* every task a worker has taken made exactly one constructor call of its
\* own, and no task uses an instance another task constructed; each instance
\* is used by the task that constructed it only, for that task's file only,
\* and exactly once when the task has run to the end of its try statement.
C15_OwnTranscriberPerTask ==
    /\ \A k \in 1..Len(tasks) :
         /\ tasks[k].file = ex2_files[k]
         /\ \A j \in 1..Len(tasks) : tasks[j].file = tasks[k].file => j = k
         /\ Cardinality(ConstructedBy(k)) = (IF tasks[k].state = "queued" THEN 0 ELSE 1)
         /\ (tasks[k].state = "transcribing" \/ tasks[k].future.kind = "result" =>
               /\ tasks[k].transcriber \in ConstructedBy(k)
               /\ transcribers[tasks[k].transcriber].ok)
    /\ \A i \in 1..Len(transcribers) :
         LET k == transcribers[i].task IN
         transcribers[i].used_for =
            (IF transcribers[i].ok /\ tasks[k].state = "done"
             THEN <<[task |-> k, file |-> ex2_files[k]]>> ELSE <<>>)
    /\ (ex2_pc \in {"collect", "returned", "ZeroDivisionError"} /\ ex2_files # <<>> =>
          Len(tasks) = Len(ex2_files))

\* the pool has run as many tasks as it was given files, more than one, and
\* each used the instance it constructed
C15_Witness ==
    /\ ex2_pc = "returned"
    /\ Len(tasks) = MaxTasks
    /\ Len(transcribers) = MaxTasks
    /\ \A k \in 1..Len(tasks) :
         /\ tasks[k].future.kind = "result"
         /\ transcribers[tasks[k].transcriber].used_for = <<[task |-> k, file |-> tasks[k].file]>>

\* the pool is drained: every future was yielded to the main thread
Drained == ex2_files # <<>> /\ Len(tasks) = Len(ex2_files) /\ ex2_collected = 1..Len(tasks)

\* C19 as stated: once the pool is drained, results holds exactly one entry
\* per submitted file, and the entry of a file whose task failed is a failure
\* entry carrying a message.
C19_OneResultPerFile ==
    Drained =>
        /\ Len(ex2_results) = Len(ex2_files)
        /\ \A k \in 1..Len(tasks) :
             /\ Cardinality({i \in 1..Len(ex2_results) : ex2_results[i].file = tasks[k].file}) = 1
             /\ (tasks[k].future.kind = "exception" =>
                   \E i \in 1..Len(ex2_results), m \in {"model load failed"} :
                      ex2_results[i] = [file |-> tasks[k].file, error |-> m, success |-> FALSE])


\* C16 as stated: a run given --no-save that transcribed something, a single
\* file or an item of a directory, has persisted no output file and has
\* printed the transcribed text to standard output.
C16_NoSavePersistsNothing ==
    (/\ pc = "returned"
     /\ status = EXIT_OK
     /\ argv.no_save
     /\ \/ call_args.callee = "transcribe_file"
        \/ \E i \in 1..Len(results) : results[i].status = "transcribed")
    => (written = {} /\ Printed("text") # <<>>)


\* the handlers of a kind the package logger holds
HandlersOf(kind) == SelectSeq(pkg_handlers, LAMBDA h : h.kind = kind)

\* the number logging gives the level names that occur; an unknown name has none
KnownLevels == [debug |-> 10, ERROR |-> 40, warning |-> 30]

\* explicit argument, else the file's value, else the built-in default
ByPrecedence(given, explicit, key, default) ==
    IF given THEN explicit
    ELSE IF yaml_logging[key].given THEN yaml_logging[key].value ELSE default

\* the level by precedence, for an unknown level name the number fallback
LevelByPrecedence(fallback) ==
    LET byName(n) == IF n \in DOMAIN KnownLevels THEN KnownLevels[n] ELSE fallback IN
    IF last_call.level.kind = "int" THEN last_call.level.no
    ELSE IF last_call.level.kind = "str" THEN byName(last_call.level.name)
    ELSE IF yaml_logging.level.given THEN byName(yaml_logging.level.value)
    ELSE 20

\* the log file by precedence; an empty configured path counts as none
LogFileByPrecedence ==
    LET f == ByPrecedence(last_call.log_file # None, last_call.log_file, "log_file_path", None)
    IN IF f = "" THEN None ELSE f

\* log file, format, date format and use_colors are what precedence gives
OtherSettingsByPrecedence ==
    /\ Len(HandlersOf("file")) = (IF LogFileByPrecedence = None THEN 0 ELSE 1)
    /\ \A i \in 1..Len(HandlersOf("file")) :
         /\ HandlersOf("file")[i].path = LogFileByPrecedence
         /\ HandlersOf("file")[i].fmt =
               ByPrecedence(last_call.log_format # None, last_call.log_format,
                            "format", "DEFAULT_FORMAT")
    /\ \A i \in 1..Len(pkg_handlers) :
         pkg_handlers[i].datefmt =
            ByPrecedence(last_call.date_format # None, last_call.date_format,
                         "date_format", "DEFAULT_DATE_FORMAT")
    /\ \A i \in 1..Len(HandlersOf("console")) :
         /\ HandlersOf("console")[i].use_colors =
               ByPrecedence(last_call.use_colors.given,
                            IF last_call.use_colors.given THEN last_call.use_colors.value
                            ELSE TRUE,
                            "use_colors", TRUE)
         /\ HandlersOf("console")[i].fmt = "CONSOLE_FORMAT"

\* C17 as stated: after setup_logging the level is the explicit level when
\* one was given, otherwise the configuration file's level when it has one,
\* otherwise INFO (a level name logging does not know is left open), and log
\* file, format, date format and use_colors follow the same precedence.
C17_ExplicitOverFileOverDefault ==
    initialized =>
        /\ (last_call.level.kind = "str" => last_call.level.name \in DOMAIN KnownLevels)
           /\ (last_call.level.kind = "none" /\ yaml_logging.level.given =>
                 yaml_logging.level.value \in DOMAIN KnownLevels)
           => pkg_level = LevelByPrecedence(0)
        /\ OtherSettingsByPrecedence

\* C17 amended: the level is DEBUG when verbose is set, whatever level was
\* passed; otherwise the explicit level when given, otherwise the file's
\* level when it has one, otherwise INFO, where a level name logging does not
\* know resolves to INFO; the console handler gets that level. Log file,
\* format, date format and use_colors are the explicit argument when given,
\* otherwise the file's value when present (for the log file: present and
\* not empty), otherwise the default; the format goes to the file handler
\* only, the console handler always has CONSOLE_FORMAT.
C17_VerboseThenPrecedence ==
    initialized =>
        /\ pkg_level = (IF last_call.verbose THEN 10 ELSE LevelByPrecedence(20))
        /\ \A i \in 1..Len(HandlersOf("console")) : HandlersOf("console")[i].level = pkg_level
        /\ Len(HandlersOf("console")) = (IF last_call.quiet THEN 0 ELSE 1)
        /\ OtherSettingsByPrecedence

\* explicit ERROR over the file's warning, the file's log file and date
\* format with none passed, an explicit format, and the default use_colors
C17_Witness ==
    /\ initialized
    /\ ~last_call.verbose /\ ~last_call.quiet
    /\ last_call.level = LevelName("ERROR") /\ yaml_logging.level = Given("warning")
    /\ last_call.log_file = None /\ yaml_logging.log_file_path = Given("app.log")
    /\ last_call.log_format = "%(message)s" /\ yaml_logging.format = Given("%(levelname)s")
    /\ last_call.date_format = None /\ yaml_logging.date_format = Given("%d/%m")
    /\ ~last_call.use_colors.given /\ ~yaml_logging.use_colors.given
    /\ pkg_level = 40
    /\ pkg_handlers = <<ConsoleHandler(40, "%d/%m", TRUE),
                        FileHandler("app.log", "%(message)s", "%d/%m")>>


\* a record was logged since the logging configuration last changed
RecordLogged == last_record.levelno # 0

\* C18 as stated: after setup_logging(quiet=True), with the logger's level
\* not above WARNING, a WARNING or ERROR record logged through a package
\* logger is written to the console, and a record below WARNING is not.
C18_QuietShowsWarnings ==
    last_call.called /\ last_call.quiet /\ pkg_level <= 30 /\ RecordLogged =>
        /\ (last_record.levelno >= 30 => last_record.console >= 1)
        /\ (last_record.levelno < 30 => last_record.console = 0)

\* C20 as stated: while the package logger has a file handler, every record
\* logged through a package logger, from DEBUG up, is written by it.
C20_FileGetsEverything ==
    HandlersOf("file") # <<>> /\ RecordLogged => last_record.file >= 1


\* C21: _initialized never returns to false; a get_logger call made before
\* any setup_logging call has completed runs setup_logging() with its
\* defaults, a get_logger call made after one has completed leaves the
\* package logger's level, handlers and propagate flag and the latest
\* setup_logging configuration as they were; a logger is cached only once
\* logging is initialized, and a cached name stays cached.
C21_InitializedOnce ==
    /\ [](loggers # {} => initialized)
    /\ [][/\ initialized => initialized'
          /\ loggers \subseteq loggers'
          /\ (~initialized /\ loggers' # loggers =>
                initialized' /\ last_call' = [NoCall EXCEPT !.called = TRUE])
          /\ (initialized /\ loggers' # loggers =>
                /\ pkg_level' = pkg_level
                /\ pkg_handlers' = pkg_handlers
                /\ pkg_propagate' = pkg_propagate
                /\ last_call' = last_call)]_vars

\* both loggers were obtained after an explicit setup_logging(level="ERROR",
\* log_file=..., quiet=True), whose configuration is still in place
C21_Witness ==
    /\ initialized
    /\ Cardinality(loggers) = 2
    /\ last_call.level = LevelName("ERROR") /\ last_call.quiet /\ last_call.log_file = "run.log"
    /\ pkg_level = 40
    /\ Len(pkg_handlers) = 1


\* every setup_logging and get_logger call has returned
AllReturned == \A t \in Threads : threads[t].pc = "idle"

\* C22 as stated: once the calls of all threads have returned, the package
\* logger holds at most one console handler and at most one file handler.
C22_HandlersNeverAccumulate ==
    AllReturned => Len(HandlersOf("console")) <= 1 /\ Len(HandlersOf("file")) <= 1


\* C23 as stated: for every non-empty set of files and every combination of
\* outcomes, once the main thread has left the collecting loop the example
\* has printed its statistics, the speed line included, and has returned
\* without an unhandled exception.
C23_ParallelRunReturns ==
    Drained /\ ex2_pc # "collect" =>
        /\ ex2_pc = "returned"
        /\ \E i \in 1..Len(ex2_stdout) : ex2_stdout[i].kind = "speed"

====
